---- MODULE Spec2Model ----
(***************************************************************************)
(* Model of the production scheduler (src/scheduler.py): the effective     *)
(* dependency graph, the calendar and shift model, the per-minute capacity *)
(* check, the window search, the list scheduler loop of schedule_tasks and *)
(* the scenario wrappers that change team capacities around it.            *)
(*                                                                         *)
(* Time is an integer number of minutes since Monday 2025-08-18 00:00, so  *)
(* that day d = t \div 1440 has weekday d % 7 (0 = Monday) and the         *)
(* scheduler's start date, Friday 2025-08-22 06:00, is minute 6120.        *)
(* Priority scores are held multiplied by 10, so that the source's         *)
(* duration / 10 * 2 term and its + 0.1 re-queue penalty are integers.     *)
(***************************************************************************)
EXTENDS Integers, Sequences, FiniteSets, TLC

VARIABLES
    bundle,                 \* the loaded data bundle (immutable after load)
    late_part_delay_days,   \* constructor argument, in tenths of a day
    team_capacity,          \* mechanic team -> head count (mutable)
    quality_team_capacity,  \* quality team -> head count (mutable)
    now,                    \* the wall clock read by datetime.now()
    silent_mode,            \* argument of the running pass
    pc,                     \* position of the scheduling pass
    task_schedule,          \* task -> placement record
    schedule_order,         \* the keys of task_schedule in insertion order
    ready_tasks,            \* the heap, as a set of <<priority, task>>
    failed_tasks,
    task_retry_counts,
    scheduled_count,
    iteration_count,
    dynamic_constraints_cache, \* _dynamic_constraints_cache: [built, edges]
    global_priority_list,   \* output of generate_global_priority_list
    last_op,                \* what the last loop iteration did
    run,                    \* number of completed invocations
    first_list,             \* output of the first invocation
    dep_order,              \* iteration order of a dependency set of the process
    scen                    \* state of the running scenario

dataVars == <<bundle, late_part_delay_days>>
capVars  == <<team_capacity, quality_team_capacity>>
passVars == <<pc, task_schedule, schedule_order, ready_tasks, failed_tasks, task_retry_counts,
              scheduled_count, iteration_count, last_op>>
vars == <<bundle, late_part_delay_days, team_capacity, quality_team_capacity,
          now, silent_mode, pc, task_schedule, schedule_order, ready_tasks, failed_tasks,
          task_retry_counts, scheduled_count, iteration_count,
          dynamic_constraints_cache, global_priority_list, last_op, run,
          first_list, dep_order, scen>>

----------------------------------------------------------------------------
(* Bounds of the model *)

MaxCapacity == 2        \* loaded head counts range up to MaxCapacity + 1
MaxRuns == 2            \* invocations of generate_global_priority_list per behaviour

----------------------------------------------------------------------------
(* Time *)

MinutesPerDay == 1440
Shift1Start == 360      \* 06:00
Shift2Start == 870      \* 14:30
Shift3Start == 1380     \* 23:00
start_date == 6120      \* datetime(2025, 8, 22, 6, 0), a Friday

DayOf(t) == t \div MinutesPerDay
MinuteOfDay(t) == t % MinutesPerDay
AtTime(day, minute) == day * MinutesPerDay + minute
\* datetime.replace(hour=h, minute=m): same date, given time of day
ReplaceTime(t, minute) == AtTime(DayOf(t), minute)

Max(a, b) == IF a >= b THEN a ELSE b
Min(a, b) == IF a <= b THEN a ELSE b

Shifts == {"1st", "2nd", "3rd"}

\* the shift window containing a time of day (lines 1212-1238)
InShift(shift, current_minutes) ==
    CASE shift = "1st" -> Shift1Start <= current_minutes /\ current_minutes < Shift2Start
      [] shift = "2nd" -> Shift2Start <= current_minutes /\ current_minutes < Shift3Start
      [] shift = "3rd" -> current_minutes >= Shift3Start \/ current_minutes < Shift1Start
      [] OTHER -> FALSE

----------------------------------------------------------------------------
(* Accessors of the data bundle, named as the scheduler's fields *)

tasks == bundle.tasks
quality_inspections == bundle.quality_inspections
quality_requirements == bundle.quality_requirements
precedence_constraints == bundle.precedence_constraints
late_part_constraints == bundle.late_part_constraints
rework_constraints == bundle.rework_constraints
late_part_tasks == bundle.late_part_tasks
rework_tasks == bundle.rework_tasks
on_dock_dates == bundle.on_dock_dates
task_to_product == bundle.task_to_product
team_shifts == bundle.team_shifts
quality_team_shifts == bundle.quality_team_shifts
delivery_dates == bundle.delivery_dates
holidays == bundle.holidays
product_tasks == bundle.product_tasks
_original_team_capacity == bundle.team_capacity
_original_quality_capacity == bundle.quality_team_capacity

all_tasks == DOMAIN tasks
total_tasks == Cardinality(all_tasks)

Range(seq) == {seq[i] : i \in 1..Len(seq)}
EmptyMap == [x \in {} |-> 0]

RECURSIVE SumOver(_, _)
\* sum of f[x] over the finite set S
SumOver(S, f) ==
    IF S = {} THEN 0
    ELSE LET x == CHOOSE y \in S : TRUE IN f[x] + SumOver(S \ {x}, f)

----------------------------------------------------------------------------
(* build_dynamic_dependencies: the effective dependency graph *)

Edge(first, second, rel, type) ==
    [First |-> first, Second |-> second, Relationship |-> rel, Type |-> type]

HasEdge(dc, first, second) ==
    \E k \in 1..Len(dc) : dc[k].First = first /\ dc[k].Second = second

RECURSIVE AddBaseConstraintsDirect(_, _)
\* baseline constraints kept as they are, without the inspection between
AddBaseConstraintsDirect(i, dc) ==
    IF i > Len(precedence_constraints) THEN dc
    ELSE LET c == precedence_constraints[i] IN
         IF c.Relationship = "" THEN AddBaseConstraintsDirect(i + 1, dc)
         ELSE AddBaseConstraintsDirect(i + 1,
                     Append(dc, Edge(c.First, c.Second, c.Relationship, "Base")))

RECURSIVE AddBaseConstraints(_, _)
\* step 1: baseline constraints, redirected through the quality inspection
AddBaseConstraints(i, dc) ==
    IF i > Len(precedence_constraints) THEN dc
    ELSE LET c == precedence_constraints[i] IN
         IF c.Relationship = "" THEN AddBaseConstraints(i + 1, dc)
         ELSE IF c.First \in DOMAIN quality_requirements
         THEN LET qi_task == quality_requirements[c.First]
                  dc1 == IF HasEdge(dc, c.First, qi_task) THEN dc
                         ELSE Append(dc, Edge(c.First, qi_task, "Finish = Start", "Base"))
              IN AddBaseConstraints(i + 1,
                     Append(dc1, Edge(qi_task, c.Second, c.Relationship, "Base")))
         ELSE AddBaseConstraints(i + 1,
                     Append(dc, Edge(c.First, c.Second, c.Relationship, "Base")))

RECURSIVE AddLatePartConstraints(_, _)
\* step 2: late part constraints, always Finish <= Start
AddLatePartConstraints(i, dc) ==
    IF i > Len(late_part_constraints) THEN dc
    ELSE LET c == late_part_constraints[i] IN
         AddLatePartConstraints(i + 1,
             Append(dc, Edge(c.First, c.Second, "Finish <= Start", "Late Part")))

RECURSIVE AddReworkConstraintsDirect(_, _)
\* rework constraints kept as they are, without the inspection between
AddReworkConstraintsDirect(i, dc) ==
    IF i > Len(rework_constraints) THEN dc
    ELSE LET c == rework_constraints[i] IN
         AddReworkConstraintsDirect(i + 1,
             Append(dc, Edge(c.First, c.Second, c.Relationship, "Rework")))

RECURSIVE AddReworkConstraints(_, _)
\* step 3: rework constraints, redirected through the rework's inspection
AddReworkConstraints(i, dc) ==
    IF i > Len(rework_constraints) THEN dc
    ELSE LET c == rework_constraints[i] IN
         IF c.First \in DOMAIN quality_requirements
         THEN LET qi_task == quality_requirements[c.First]
                  dc1 == IF HasEdge(dc, c.First, qi_task) THEN dc
                         ELSE Append(dc, Edge(c.First, qi_task, "Finish = Start", "Rework QI"))
              IN AddReworkConstraints(i + 1,
                     Append(dc1, Edge(qi_task, c.Second, c.Relationship, "Rework")))
         ELSE AddReworkConstraints(i + 1,
                     Append(dc, Edge(c.First, c.Second, c.Relationship, "Rework")))

\* a last step that adds nothing
SkipResidualQI(todo, dc) == dc

RECURSIVE AddResidualQI(_, _)
\* step 4: primary -> inspection links not emitted so far
AddResidualQI(todo, dc) ==
    IF todo = {} THEN dc
    ELSE LET primary_task == CHOOSE p \in todo : \A q \in todo : p <= q
             qi_task == quality_requirements[primary_task]
         IN AddResidualQI(todo \ {primary_task},
                IF HasEdge(dc, primary_task, qi_task) THEN dc
                ELSE Append(dc, Edge(primary_task, qi_task, "Finish = Start", "Base")))

BuildConstraints ==
    AddResidualQI(DOMAIN quality_requirements,
        AddReworkConstraints(1, AddLatePartConstraints(1, AddBaseConstraints(1, <<>>))))

\* a call that builds the edges again on top of the list of the last call
build_onto_cache == dynamic_constraints_cache.edges \o BuildConstraints

\* the value build_dynamic_dependencies returns, and the cache after the call
build_dynamic_dependencies ==
    IF dynamic_constraints_cache.built THEN dynamic_constraints_cache.edges
    ELSE BuildConstraints

Relations == {"Finish <= Start", "Finish = Start", "Start <= Start"}

\* dependencies[task] and dependents[task] of schedule_tasks
dependencies(dc, task) ==
    {c.First : c \in {e \in Range(dc) : e.Second = task /\ e.Relationship \in Relations}}
dependents(dc, task) ==
    {c.Second : c \in {e \in Range(dc) : e.First = task /\ e.Relationship \in Relations}}

----------------------------------------------------------------------------
(* validate_dag *)

\* graph[first]: every edge, whatever its relationship
Successors(dc, n) == {c.Second : c \in {e \in Range(dc) : e.First = n}}
all_tasks_in_constraints(dc) == {c.First : c \in Range(dc)} \cup {c.Second : c \in Range(dc)}

RECURSIVE ReachableFrom(_, _, _)
\* the nodes reachable from the set S in one or more steps
ReachableFrom(dc, S, seen) ==
    LET next == UNION {Successors(dc, n) : n \in S} \ seen IN
    IF next = {} THEN seen ELSE ReachableFrom(dc, next, seen \cup next)

OnCycle(dc, n) == n \in ReachableFrom(dc, {n}, {})
HasCycle(dc) == \E n \in all_tasks_in_constraints(dc) : OnCycle(dc, n)

\* a search that reports no cycle
dfs_without_stack(dc, todo, visited, rec_stack) == [cycle |-> FALSE, visited |-> visited]

RECURSIVE has_cycle_dfs(_, _, _, _)
\* the loop over the neighbours todo of the node on top of rec_stack; with an
\* empty rec_stack, the loop over all nodes that starts a search at every
\* node not yet visited (lines 1103-1107)
has_cycle_dfs(dc, todo, visited, rec_stack) ==
    IF todo = {} THEN [cycle |-> FALSE, visited |-> visited]
    ELSE LET neighbor == CHOOSE n \in todo : \A m \in todo : n <= m
             below == has_cycle_dfs(dc, Successors(dc, neighbor), visited \cup {neighbor},
                                    rec_stack \cup {neighbor})
         IN IF neighbor \notin visited
            THEN IF below.cycle THEN below
                 ELSE has_cycle_dfs(dc, todo \ {neighbor}, below.visited, rec_stack)
            ELSE IF neighbor \in rec_stack THEN [cycle |-> TRUE, visited |-> visited]
            ELSE has_cycle_dfs(dc, todo \ {neighbor}, visited, rec_stack)

\* the late part and rework tasks no product holds: reported, not fatal
orphan_tasks ==
    {t \in late_part_tasks \cup rework_tasks :
        \A i \in 1..Len(product_tasks) : t \notin product_tasks[i].tasks}

validate_dag(dc) ==
    /\ all_tasks_in_constraints(dc) \subseteq all_tasks     \* no missing task
    /\ ~has_cycle_dfs(dc, all_tasks_in_constraints(dc), {}, {}).cycle

----------------------------------------------------------------------------
(* Products, critical path and priority *)

RECURSIVE FirstProductWith(_, _)
\* the first product, in the order of product_tasks, whose task list holds
\* one of the given tasks
FirstProductWith(i, ids) ==
    IF i > Len(product_tasks) THEN "None"
    ELSE IF product_tasks[i].tasks \cap ids # {} THEN product_tasks[i].product
    ELSE FirstProductWith(i + 1, ids)

\* the product line schedule_tasks resolves for a task (lines 874-886)
ScheduleProductLine(task_id) ==
    IF task_id \in DOMAIN quality_inspections
    THEN FirstProductWith(1, {quality_inspections[task_id], task_id})
    ELSE FirstProductWith(1, {task_id})

\* the product line calculate_task_priority resolves (lines 1333-1344)
PriorityProductLine(task_id) ==
    IF task_id \in DOMAIN task_to_product THEN task_to_product[task_id]
    ELSE FirstProductWith(1, {task_id})

\* a cycle is reachable along successors that are defined tasks
RecursesForever(dc, task_id) ==
    \E n \in {task_id} \cup ReachableFrom(dc, {task_id}, {}) :
        n \in all_tasks /\ OnCycle(dc, n)

\* a path length that counts the task alone
own_duration_only(dc, task) == tasks[task].duration

RECURSIVE get_path_length(_, _)
get_path_length(dc, task) ==
    LET succ == Successors(dc, task) \cap all_tasks
        paths == {get_path_length(dc, s) : s \in succ}
        max_successor_path == IF paths = {} THEN 0
                              ELSE CHOOSE m \in paths : \A o \in paths : o <= m
    IN tasks[task].duration + max_successor_path

calculate_critical_path_length(dc, task_id) == get_path_length(dc, task_id)

RECURSIVE get_path_length_cached(_, _, _)
RECURSIVE VisitSuccessors(_, _, _, _)
\* _critical_path_cache after get_path_length(task) ran with the given cache
\* (lines 1299-1315)
get_path_length_cached(dc, task, cache) ==
    IF task \in DOMAIN cache THEN cache
    ELSE LET after == VisitSuccessors(dc, task, 1, cache)
             paths == {after[s] : s \in Successors(dc, task) \cap all_tasks}
             max_successor_path == IF paths = {} THEN 0
                                   ELSE CHOOSE m \in paths : \A o \in paths : o <= m
         IN (task :> tasks[task].duration + max_successor_path) @@ after

\* the loop over the constraints from position k on (lines 1307-1312)
VisitSuccessors(dc, task, k, cache) ==
    IF k > Len(dc) THEN cache
    ELSE IF dc[k].First = task /\ dc[k].Second \in all_tasks
    THEN VisitSuccessors(dc, task, k + 1, get_path_length_cached(dc, dc[k].Second, cache))
    ELSE VisitSuccessors(dc, task, k + 1, cache)

\* calculate_task_priority raises: KeyError on a product without delivery
\* date or on an undefined task, RecursionError when the critical path walk
\* meets a cycle
PriorityRaises(dc, task_id) ==
    /\ task_id \notin late_part_tasks
    /\ task_id \notin DOMAIN quality_inspections
    /\ task_id \notin rework_tasks
    /\ PriorityProductLine(task_id) # "None"
    /\ \/ PriorityProductLine(task_id) \notin DOMAIN delivery_dates
       \/ RecursesForever(dc, task_id)
       \/ task_id \notin all_tasks

\* (delivery_date - datetime.now()).days
days_to_delivery(product_line) == (delivery_dates[product_line] - now) \div MinutesPerDay

\* ten times the score of calculate_task_priority
calculate_task_priority(dc, task_id) ==
    IF task_id \in late_part_tasks THEN -20000
    ELSE IF task_id \in DOMAIN quality_inspections THEN -10000
    ELSE IF task_id \in rework_tasks THEN -5000
    ELSE IF PriorityProductLine(task_id) = "None" THEN 9999990
    ELSE (100 - days_to_delivery(PriorityProductLine(task_id))) * 100
         + (10000 - calculate_critical_path_length(dc, task_id)) * 50
         + (100 - Cardinality({k \in 1..Len(dc) : dc[k].First = task_id})) * 30
         + (2000 - 2 * tasks[task_id].duration)

----------------------------------------------------------------------------
(* Calendar, capacity timeline and window search *)

is_working_day(date, product_line) ==
    /\ DayOf(date) % 7 < 5                     \* Saturday = 5, Sunday = 6
    /\ ~(product_line \in DOMAIN holidays /\ DayOf(date) \in holidays[product_line])

\* team_capacity.get(team, 0) or quality_team_capacity.get(team, 0)
CapacityOf(team) ==
    IF team \in DOMAIN team_capacity /\ team_capacity[team] # 0 THEN team_capacity[team]
    ELSE IF team \in DOMAIN quality_team_capacity THEN quality_team_capacity[team]
    ELSE 0

\* the workers of a team busy at one minute under a schedule
UsageAt(sched, team, minute) ==
    LET busy == {t \in DOMAIN sched : /\ sched[t].team = team
                                      /\ sched[t].start_time <= minute
                                      /\ minute < sched[t].end_time}
    IN SumOver(busy, [t \in busy |-> sched[t].mechanics_required])

\* a capacity check that forgets the workers the new task itself needs
check_usage_without_request(team, start_time, end_time, mechanics_needed) ==
    \A current \in start_time..(end_time - 1) :
        UsageAt(task_schedule, team, current) <= CapacityOf(team)

check_team_capacity_at_time(team, start_time, end_time, mechanics_needed) ==
    \A current \in start_time..(end_time - 1) :
        UsageAt(task_schedule, team, current) + mechanics_needed <= CapacityOf(team)

QualityTeamsOn(shift) ==
    {quality_team_shifts[i].team : i \in {k \in 1..Len(quality_team_shifts) :
                                             shift \in quality_team_shifts[k].shifts}}

\* available_shift of the window search at a time of day (lines 1205-1238)
AvailableShift(team, current_minutes, is_quality) ==
    LET cand == IF is_quality
                THEN {sh \in Shifts : InShift(sh, current_minutes) /\ QualityTeamsOn(sh) # {}}
                ELSE {sh \in (IF team \in DOMAIN team_shifts THEN team_shifts[team] ELSE {}) :
                         InShift(sh, current_minutes)}
    IN IF cand = {} THEN "None" ELSE CHOOSE sh \in cand : TRUE

\* "move to next available shift" (lines 1249-1258)
NextShiftStart(current_time) ==
    LET current_minutes == MinuteOfDay(current_time) IN
    IF current_minutes < Shift1Start THEN ReplaceTime(current_time, Shift1Start)
    ELSE IF current_minutes < Shift2Start THEN ReplaceTime(current_time, Shift2Start)
    ELSE IF current_minutes < Shift3Start THEN ReplaceTime(current_time, Shift3Start)
    ELSE ReplaceTime(current_time, Shift1Start) + MinutesPerDay

max_window_iterations == 5000

\* one iteration of the while loop of get_next_working_time_with_capacity;
\* w = [time, iterations, st, shift] with st "run", "found" or "raise"
WindowStep(w, product_line, team, mechanics_needed, duration, is_quality) ==
    IF w.st # "run" THEN w
    ELSE IF w.iterations >= max_window_iterations THEN [w EXCEPT !.st = "raise"]
    ELSE IF ~is_working_day(w.time, product_line)
    THEN [w EXCEPT !.iterations = @ + 1,
                   !.time = ReplaceTime(w.time, Shift1Start) + MinutesPerDay]
    ELSE LET available_shift == AvailableShift(team, MinuteOfDay(w.time), is_quality) IN
         IF available_shift # "None"
         THEN IF check_team_capacity_at_time(team, w.time, w.time + duration, mechanics_needed)
              THEN [w EXCEPT !.iterations = @ + 1, !.st = "found", !.shift = available_shift]
              ELSE [w EXCEPT !.iterations = @ + 1, !.time = @ + 1]
         ELSE [w EXCEPT !.iterations = @ + 1, !.time = NextShiftStart(w.time)]

RECURSIVE WindowLoop(_, _, _, _, _, _, _)
\* n iterations of the loop, halved so that the evaluation stays shallow
WindowLoop(w, n, product_line, team, mechanics_needed, duration, is_quality) ==
    IF w.st # "run" THEN w
    ELSE IF n = 1
    THEN WindowStep(w, product_line, team, mechanics_needed, duration, is_quality)
    ELSE CHOOSE r \in {WindowLoop(half, rest, product_line, team, mechanics_needed,
                                  duration, is_quality) :
                       half \in {WindowLoop(w, k, product_line, team, mechanics_needed,
                                            duration, is_quality) : k \in {n \div 2}},
                       rest \in {n - (n \div 2)}} : TRUE

\* [st |-> "found", time, shift] or [st |-> "raise"] (RuntimeError)
get_next_working_time_with_capacity(current_time, product_line, team, mechanics_needed, duration, is_quality) ==
    CHOOSE r \in {WindowLoop(w, max_window_iterations + 1,
                             product_line, team, mechanics_needed, duration, is_quality) :
                  w \in {[time |-> current_time, iterations |-> 0, st |-> "run",
                          shift |-> "None"]}} : TRUE

\* cumulative scheduled worker-minutes of a team
TeamLoad(team) ==
    LET mine == {t \in DOMAIN task_schedule : task_schedule[t].team = team}
    IN SumOver(mine, [t \in mine |-> task_schedule[t].duration
                                      * task_schedule[t].mechanics_required])

RECURSIVE FirstMinLoad(_, _)
\* min(team_loads.items(), key=load): the first team of least load, in the
\* insertion order of quality_team_shifts
FirstMinLoad(i, teams) ==
    IF i > Len(quality_team_shifts) THEN "None"
    ELSE LET team == quality_team_shifts[i].team IN
         IF team \in teams /\ \A o \in teams : TeamLoad(team) <= TeamLoad(o) THEN team
         ELSE FirstMinLoad(i + 1, teams)

assign_quality_team_balanced(shift, mechanics_needed) ==
    LET team_loads == {team \in QualityTeamsOn(shift) :
                          (IF team \in DOMAIN quality_team_capacity
                           THEN quality_team_capacity[team] ELSE 0) >= mechanics_needed}
    IN FirstMinLoad(1, team_loads)

\* earliest start on the on-dock date plus the delay, set to 06:00
get_earliest_start_for_late_part(task_id) ==
    IF task_id \notin DOMAIN on_dock_dates THEN start_date
    ELSE ReplaceTime(on_dock_dates[task_id] + late_part_delay_days * 144, Shift1Start)

----------------------------------------------------------------------------
(* schedule_tasks: one iteration of the main loop *)

RECURSIVE InOrder(_, _)
\* the elements of a set of task ids as a sequence, ascending or descending:
\* the order in which a Python set is iterated is fixed for the process but
\* is not specified
InOrder(S, order) ==
    IF S = {} THEN <<>>
    ELSE LET x == IF order = "asc" THEN CHOOSE y \in S : \A z \in S : y <= z
                  ELSE CHOOSE y \in S : \A z \in S : y >= z
         IN <<x>> \o InOrder(S \ {x}, order)

is_finish_equals_start(dc, dep, task_id) ==
    \E k \in 1..Len(dc) : /\ dc[k].First = dep
                          /\ dc[k].Second = task_id
                          /\ dc[k].Relationship = "Finish = Start"

RECURSIVE CheckDependencies(_, _, _, _, _)
\* the loop "for dep in dependencies.get(task_id, set())" (lines 910-929)
CheckDependencies(dc, task_id, deps, i, earliest_start) ==
    IF i > Len(deps) THEN earliest_start
    ELSE LET dep == deps[i] IN
         IF dep \in DOMAIN task_schedule
         THEN LET dep_end == task_schedule[dep].end_time IN
              CheckDependencies(dc, task_id, deps, i + 1,
                  IF is_finish_equals_start(dc, dep, task_id) THEN dep_end
                  ELSE Max(earliest_start, dep_end))
         ELSE CheckDependencies(dc, task_id, deps, i + 1, earliest_start)

\* earliest_start of a task about to be placed (lines 900-929); current_time
\* is the start date throughout the pass
EarliestStart(dc, task_id) ==
    LET base == IF task_id \in late_part_tasks
                THEN Max(start_date, get_earliest_start_for_late_part(task_id))
                ELSE start_date
    IN CheckDependencies(dc, task_id, InOrder(dependencies(dc, task_id), dep_order), 1, base)

TryShiftOrder == <<"1st", "2nd", "3rd">>

RECURSIVE TryQualityShifts(_, _, _, _, _, _)
\* the loop "for try_shift in ['1st', '2nd', '3rd']" (lines 941-953)
TryQualityShifts(i, best, earliest_start, product_line, mechanics_needed, duration) ==
    IF i > Len(TryShiftOrder) THEN best
    ELSE LET try_shift == TryShiftOrder[i]
             temp_team == assign_quality_team_balanced(try_shift, mechanics_needed)
             w == get_next_working_time_with_capacity(earliest_start, product_line,
                      temp_team, mechanics_needed, duration, TRUE)
         IN TryQualityShifts(i + 1,
                IF temp_team # "None" /\ w.st = "found"
                   /\ (best.st # "found" \/ w.time < best.time)
                THEN [st |-> "found", time |-> w.time, team |-> temp_team, shift |-> try_shift]
                ELSE best,
                earliest_start, product_line, mechanics_needed, duration)

\* the placement found for a task: [st |-> "found", time, team, shift], or
\* st # "found" when no quality team or no window was found
FindPlacement(dc, task_id, product_line) ==
    LET task_info == tasks[task_id]
        earliest_start == EarliestStart(dc, task_id)
    IN IF task_info.is_quality
       THEN TryQualityShifts(1, [st |-> "none", time |-> 0, team |-> "None", shift |-> "None"],
                earliest_start, product_line, task_info.mechanics_required, task_info.duration)
       ELSE LET w == get_next_working_time_with_capacity(earliest_start, product_line,
                         task_info.team, task_info.mechanics_required,
                         task_info.duration, FALSE)
            IN [st |-> w.st, time |-> w.time, team |-> task_info.team, shift |-> w.shift]

Placement(task_id, product_line, found) ==
    [start_time |-> found.time,
     end_time |-> found.time + tasks[task_id].duration,
     team |-> found.team,
     product_line |-> product_line,
     duration |-> tasks[task_id].duration,
     mechanics_required |-> tasks[task_id].mechanics_required,
     is_quality |-> tasks[task_id].is_quality,
     task_type |-> tasks[task_id].task_type,
     shift |-> found.shift]

\* a pop by task id alone
HeapLeastId(heap) == CHOOSE e \in heap : \A o \in heap : e[2] <= o[2]

\* heapq.heappop: the least (priority, task) pair
HeapMin(heap) ==
    CHOOSE e \in heap : \A o \in heap : e[1] < o[1] \/ (e[1] = o[1] /\ e[2] <= o[2])

Pushed(dc, ts) == {<<calculate_task_priority(dc, t), t>> : t \in ts}

IsDone(sched, failed, t) == t \in DOMAIN sched \/ t \in failed

\* every task of the catalog, with or without predecessors
every_task(dc) == all_tasks

RootTasks(dc) == {t \in all_tasks : dependencies(dc, t) = {}}

\* a rescan that does not leave out the permanently failed tasks
RescanWithFailed(dc) ==
    {t \in all_tasks : /\ t \notin DOMAIN task_schedule
                       /\ \A d \in dependencies(dc, t) : IsDone(task_schedule, failed_tasks, d)}

\* a rescan that does not leave out the tasks already placed
RescanWithPlaced(dc) ==
    {t \in all_tasks : /\ t \notin failed_tasks
                       /\ \A d \in dependencies(dc, t) : IsDone(task_schedule, failed_tasks, d)}

\* the tasks the rescan of an empty heap finds ready (lines 836-847)
RescanReady(dc) ==
    {t \in all_tasks : /\ ~IsDone(task_schedule, failed_tasks, t)
                       /\ \A d \in dependencies(dc, t) : IsDone(task_schedule, failed_tasks, d)}

NeedsRescan ==
    ready_tasks = {} /\ scheduled_count + Cardinality(failed_tasks) < total_tasks

\* the dependents pushed after task_id was placed (lines 1003-1012)
NewlyReady(dc, task_id, sched) ==
    {d \in dependents(dc, task_id) :
        /\ ~IsDone(sched, failed_tasks, d)
        /\ \A x \in dependencies(dc, d) : IsDone(sched, failed_tasks, x)}

max_task_retries == 3

\* task_retry_counts is a defaultdict(int)
RetryCount(task_id) ==
    IF task_id \in DOMAIN task_retry_counts THEN task_retry_counts[task_id] ELSE 0

\* a loop that goes on while work is left, however long it has run
WhileWorkIsLeft == ready_tasks # {} \/ scheduled_count < total_tasks

\* the condition of the while loop (retry_count is never raised above 0)
LoopCondition ==
    /\ ready_tasks # {} \/ scheduled_count < total_tasks
    /\ iteration_count < total_tasks * 10

----------------------------------------------------------------------------
(* generate_global_priority_list: slack, ordering and rank *)

Infinity == 1000000000

\* the product line calculate_slack_time resolves (lines 1419-1438)
SlackProductLine(task_id) ==
    IF task_id \in DOMAIN task_to_product THEN task_to_product[task_id]
    ELSE IF task_id \in DOMAIN quality_inspections
    THEN LET primary_task == quality_inspections[task_id] IN
         IF primary_task \in DOMAIN task_to_product THEN task_to_product[primary_task]
         ELSE FirstProductWith(1, {primary_task})
    ELSE FirstProductWith(1, {task_id})

SlackRaises(task_id) ==
    /\ SlackProductLine(task_id) # "None"
    /\ SlackProductLine(task_id) \notin DOMAIN delivery_dates

\* slack in minutes: delivery less 3 minutes per successor minute (a day of
\* buffer per 8 hours of successors) less the 2 day safety buffer, less the
\* scheduled start
calculate_slack_time(dc, task_id) ==
    IF SlackProductLine(task_id) = "None" THEN Infinity
    ELSE LET all_successors == ReachableFrom(dc, {task_id}, {})
             known == all_successors \cap all_tasks
             total_successor_duration == SumOver(known, [t \in known |-> tasks[t].duration])
             latest_start == delivery_dates[SlackProductLine(task_id)]
                             - (3 * total_successor_duration + 2 * MinutesPerDay)
         IN IF task_id \in DOMAIN task_schedule
            THEN latest_start - task_schedule[task_id].start_time
            ELSE 0

PositionIn(seq, x) == CHOOSE i \in 1..Len(seq) : seq[i] = x

\* the sort key (scheduled_start, slack_hours) of a placed task
SortsBefore(dc, a, b) ==
    \/ task_schedule[a].start_time < task_schedule[b].start_time
    \/ /\ task_schedule[a].start_time = task_schedule[b].start_time
       /\ calculate_slack_time(dc, a) < calculate_slack_time(dc, b)

\* the rank the stable sort gives a placed task
GlobalPriority(dc, task_id) ==
    1 + Cardinality({u \in DOMAIN task_schedule :
            \/ SortsBefore(dc, u, task_id)
            \/ /\ ~SortsBefore(dc, task_id, u)
               /\ PositionIn(schedule_order, u) < PositionIn(schedule_order, task_id)})

\* the priority list, as a function of the placed task
PriorityList(dc) ==
    [t \in DOMAIN task_schedule |->
        [scheduled_start |-> task_schedule[t].start_time,
         scheduled_end |-> task_schedule[t].end_time,
         team |-> task_schedule[t].team,
         shift |-> task_schedule[t].shift,
         product_line |-> task_schedule[t].product_line,
         slack |-> calculate_slack_time(dc, t),
         priority_score |-> calculate_task_priority(dc, t),
         global_priority |-> GlobalPriority(dc, t)]]

----------------------------------------------------------------------------
(* The scheduling pass as a state machine *)

NoOp == [op |-> "none", task |-> 0, priority |-> 0]
Op(name, task_id, priority) == [op |-> name, task |-> task_id, priority |-> priority]

\* a pass that goes on from what the last pass left behind
ResumePass(sm) ==
    LET dc == build_dynamic_dependencies IN
    /\ silent_mode' = sm
    /\ dynamic_constraints_cache' = [built |-> TRUE, edges |-> dc]
    /\ iteration_count' = 0
    /\ IF ~validate_dag(dc) \/ \E t \in RootTasks(dc) : PriorityRaises(dc, t)
       THEN /\ pc' = "error"
            /\ ready_tasks' = {}
            /\ last_op' = Op("ValueError", 0, 0)
       ELSE /\ pc' = "loop"
            /\ ready_tasks' = Pushed(dc, RootTasks(dc))
            /\ last_op' = Op("start", 0, 0)
    /\ UNCHANGED <<task_schedule, schedule_order, failed_tasks, task_retry_counts,
                   scheduled_count>>

\* schedule_tasks up to the first test of the while loop (lines 766-826)
BeginPass(sm) ==
    LET dc == build_dynamic_dependencies
        roots == RootTasks(dc)
    IN /\ silent_mode' = sm
       /\ dynamic_constraints_cache' = [built |-> TRUE, edges |-> dc]
       /\ task_schedule' = EmptyMap
       /\ schedule_order' = <<>>
       /\ failed_tasks' = {}
       /\ task_retry_counts' = [t \in all_tasks |-> 0]
       /\ scheduled_count' = 0
       /\ iteration_count' = 0
       /\ IF ~sm /\ ~validate_dag(dc)
          THEN /\ pc' = "error"            \* ValueError: DAG validation failed
               /\ ready_tasks' = {}
               /\ last_op' = Op("ValueError", 0, 0)
          ELSE IF \E t \in roots : PriorityRaises(dc, t)
          THEN /\ pc' = "error"
               /\ ready_tasks' = {}
               /\ last_op' = Op("PriorityError", 0, 0)
          ELSE /\ pc' = "loop"
               /\ ready_tasks' = Pushed(dc, roots)
               /\ last_op' = Op("start", 0, 0)

\* one iteration of the while loop of schedule_tasks (lines 828-1012)
LoopBody ==
    LET dc == dynamic_constraints_cache.edges
        rescanned == IF NeedsRescan THEN RescanReady(dc) ELSE {}
    IN /\ iteration_count' = iteration_count + 1
       /\ IF \E t \in rescanned : PriorityRaises(dc, t)
          THEN /\ pc' = "error"
               /\ last_op' = Op("PriorityError", 0, 0)
               /\ UNCHANGED <<task_schedule, schedule_order, ready_tasks, failed_tasks,
                              task_retry_counts, scheduled_count>>
          ELSE \E heap1 \in {ready_tasks \cup Pushed(dc, rescanned)} :
          IF heap1 = {}
          THEN \* "No more tasks can be scheduled" or "queue is empty": break
               /\ pc' = "exit"
               /\ last_op' = Op("break", 0, 0)
               /\ UNCHANGED <<task_schedule, schedule_order, ready_tasks, failed_tasks,
                              task_retry_counts, scheduled_count>>
          ELSE \E e \in {HeapMin(heap1)} :
          \E product_line \in {ScheduleProductLine(e[2])} :
          LET priority == e[1]
              task_id == e[2]
              heap2 == heap1 \ {e}
          IN
          IF RetryCount(task_id) >= max_task_retries
          THEN /\ pc' = "loop"
               /\ ready_tasks' = heap2
               /\ failed_tasks' = failed_tasks \cup {task_id}
               /\ last_op' = Op("skip_failed", task_id, priority)
               /\ UNCHANGED <<task_schedule, schedule_order, task_retry_counts,
                              scheduled_count>>
          ELSE IF product_line = "None"
          THEN /\ pc' = "loop"
               /\ ready_tasks' = heap2
               /\ last_op' = Op("skip_no_product", task_id, priority)
               /\ UNCHANGED <<task_schedule, schedule_order, failed_tasks,
                              task_retry_counts, scheduled_count>>
          ELSE IF task_id \notin all_tasks
          THEN /\ pc' = "error"          \* KeyError: self.tasks[task_id]
               /\ ready_tasks' = heap2
               /\ last_op' = Op("KeyError", task_id, priority)
               /\ UNCHANGED <<task_schedule, schedule_order, failed_tasks,
                              task_retry_counts, scheduled_count>>
          ELSE \E found \in {FindPlacement(dc, task_id, product_line)} :
          IF found.st # "found"
          THEN /\ pc' = "loop"
               /\ task_retry_counts' = [task_retry_counts EXCEPT ![task_id] = @ + 1]
               /\ IF task_retry_counts[task_id] + 1 < max_task_retries
                  THEN /\ ready_tasks' = heap2 \cup {<<priority + 1, task_id>>}
                       /\ failed_tasks' = failed_tasks
                       /\ last_op' = Op("requeue", task_id, priority)
                  ELSE /\ ready_tasks' = heap2
                       /\ failed_tasks' = failed_tasks \cup {task_id}
                       /\ last_op' = Op("fail", task_id, priority)
               /\ UNCHANGED <<task_schedule, schedule_order, scheduled_count>>
          ELSE \E sched \in {(task_id :> Placement(task_id, product_line, found))
                                 @@ task_schedule} :
               \E newly_ready \in {NewlyReady(dc, task_id, sched)} :
               /\ task_schedule' = sched
               /\ schedule_order' = Append(schedule_order, task_id)
               /\ scheduled_count' = scheduled_count + 1
               /\ UNCHANGED <<failed_tasks, task_retry_counts>>
               /\ IF \E t \in newly_ready : PriorityRaises(dc, t)
                  THEN /\ pc' = "error"
                       /\ ready_tasks' = heap2
                       /\ last_op' = Op("PriorityError", task_id, priority)
                  ELSE /\ pc' = "loop"
                       /\ ready_tasks' = heap2 \cup Pushed(dc, newly_ready)
                       /\ last_op' = Op("place", task_id, priority)

\* what generate_global_priority_list does after schedule_tasks returned
\* (lines 1486-1542)
EndPass ==
    LET dc == dynamic_constraints_cache.edges IN
    IF \E t \in DOMAIN task_schedule : SlackRaises(t)
    THEN /\ pc' = "error"
         /\ UNCHANGED global_priority_list
    ELSE /\ pc' = "done"
         /\ global_priority_list' = PriorityList(dc)

PassFinished == pc = "exit" \/ (pc = "loop" /\ ~LoopCondition)

----------------------------------------------------------------------------
(* Data bundles: what the loader hands to the engine *)

Production(duration, team, mechanics) ==
    [duration |-> duration, team |-> team, mechanics_required |-> mechanics,
     is_quality |-> FALSE, task_type |-> "Production"]
LatePart(duration, team, mechanics) ==
    [duration |-> duration, team |-> team, mechanics_required |-> mechanics,
     is_quality |-> FALSE, task_type |-> "Late Part"]
QualityInspection(duration, mechanics) ==
    [duration |-> duration, team |-> "None", mechanics_required |-> mechanics,
     is_quality |-> TRUE, task_type |-> "Quality Inspection"]
Constraint(first, second, rel) == [First |-> first, Second |-> second, Relationship |-> rel]
QualityTeam(team, shift) == [team |-> team, shifts |-> {shift}]
Product(product, ids) == [product |-> product, tasks |-> ids]

\* three production tasks of one product on one first-shift mechanic team
BaseBundle ==
    [tasks |-> (1 :> Production(60, "M1", 1)) @@ (2 :> Production(60, "M1", 1))
               @@ (3 :> Production(60, "M1", 1)),
     quality_inspections |-> EmptyMap,
     quality_requirements |-> EmptyMap,
     precedence_constraints |-> <<>>,
     late_part_constraints |-> <<>>,
     rework_constraints |-> <<>>,
     late_part_tasks |-> {},
     rework_tasks |-> {},
     on_dock_dates |-> EmptyMap,
     task_to_product |-> EmptyMap,
     team_shifts |-> ("M1" :> {"1st"}),
     quality_team_shifts |-> <<QualityTeam("Q1", "1st")>>,
     team_capacity |-> ("M1" :> 2),
     quality_team_capacity |-> ("Q1" :> 1),
     delivery_dates |-> ("P1" :> AtTime(14, 720)),
     holidays |-> EmptyMap,
     product_tasks |-> <<Product("P1", {1, 2, 3})>>]

\* E4: tasks without precedence competing for one team
CapacityBundles ==
    {[BaseBundle EXCEPT
        !.tasks = (1 :> Production(60, "M1", 1)) @@ (2 :> Production(90, "M1", m[1]))
                  @@ (3 :> Production(60, "M1", m[2])),
        !.team_capacity = ("M1" :> cap)] :
     m \in [1..2 -> 1..2], cap \in 2..(MaxCapacity + 1)}
    \cup {[BaseBundle EXCEPT
             !.tasks = (1 :> Production(60, "M1", 1)) @@ (2 :> Production(90, "M1", 2))
                       @@ (3 :> Production(60, "M1", 1)),
             !.team_capacity = ("M1" :> 1)]}

\* task 3 with the two predecessors 1 and 2 under every pair of relations
PrecedenceBundles ==
    {[BaseBundle EXCEPT
        !.tasks = (1 :> Production(d[1], "M1", 1)) @@ (2 :> Production(d[2], "M1", 1))
                  @@ (3 :> Production(60, "M1", 1)),
        !.precedence_constraints = <<Constraint(1, 3, r[1]), Constraint(2, 3, r[2])>>] :
     d \in [1..2 -> {60, 120}], r \in [1..2 -> Relations]}

\* task 4 may start once task 2 has started, and follows task 3; task 2
\* waits for task 1
StartStartBundles ==
    {[BaseBundle EXCEPT
        !.tasks = (1 :> Production(120, "M1", 1)) @@ (2 :> Production(60, "M1", 1))
                  @@ (3 :> Production(60, "M1", 1)) @@ (4 :> Production(60, "M1", 1)),
        !.precedence_constraints = <<Constraint(1, 2, "Finish <= Start"),
                                     Constraint(2, 4, "Start <= Start"),
                                     Constraint(3, 4, r)>>,
        !.product_tasks = <<Product("P1", {1, 2, 3, 4})>>] :
     r \in Relations}

\* E3: tasks 1 and 3 inspected by tasks 4 and 5, task 2 after task 1
QualityBundles ==
    {[BaseBundle EXCEPT
        !.tasks = (1 :> Production(d, "M1", 1)) @@ (2 :> Production(60, "M1", 1))
                  @@ (3 :> Production(60, "M1", 1))
                  @@ (4 :> QualityInspection(30, 1)) @@ (5 :> QualityInspection(30, 1)),
        !.quality_inspections = (4 :> 1) @@ (5 :> 3),
        !.quality_requirements = (1 :> 4) @@ (3 :> 5),
        !.precedence_constraints = <<Constraint(1, 2, "Finish <= Start")>>,
        !.quality_team_shifts = qts,
        !.quality_team_capacity = ("Q1" :> qc) @@ ("Q2" :> 1),
        !.product_tasks = <<Product("P1", {1, 4, 2, 3, 5})>>] :
     d \in {60, 480},
     qts \in {<<QualityTeam("Q1", "1st")>>, <<QualityTeam("Q1", "2nd")>>,
              <<QualityTeam("Q2", "1st"), QualityTeam("Q1", "1st")>>},
     qc \in 0..1}

\* tasks 2 and 3 both after task 1, which is inspected by task 4
SharedInspectionBundles ==
    {[b EXCEPT !.precedence_constraints = <<Constraint(1, 2, "Finish <= Start"),
                                            Constraint(1, 3, r)>>] :
     b \in {q \in QualityBundles : /\ q.tasks[1].duration = 60
                                   /\ Len(q.quality_team_shifts) = 2
                                   /\ q.quality_team_capacity["Q1"] = 1},
     r \in {"Finish <= Start", "Start <= Start"}}

\* E2: late part task 6 before task 2, with an on-dock date and, possibly, a
\* predecessor of its own
LatePartBundles ==
    {[BaseBundle EXCEPT
        !.tasks = (1 :> Production(60, "M1", 1)) @@ (2 :> Production(60, "M1", 1))
                  @@ (3 :> Production(60, "M1", 1)) @@ (6 :> LatePart(120, "M1", 1)),
        !.late_part_tasks = {6},
        !.late_part_constraints = <<[First |-> 6, Second |-> 2, Product_Line |-> "P1"]>>,
        !.on_dock_dates = od,
        !.task_to_product = (6 :> "P1"),
        !.precedence_constraints = pre,
        !.product_tasks = <<Product("P1", {1, 2, 3, 6})>>] :
     od \in {EmptyMap, (6 :> AtTime(7, 0)), (6 :> AtTime(3, 0))},
     pre \in {<<>>, <<Constraint(1, 6, "Finish <= Start")>>,
              <<Constraint(1, 6, "Finish = Start")>>}}

\* E5: a chain 1 -> 2 of tasks on a team working other shifts, near the
\* weekend and a holiday
CalendarBundles ==
    {[BaseBundle EXCEPT
        !.tasks = (1 :> Production(d, "M1", 1)) @@ (2 :> Production(60, "M1", 1))
                  @@ (3 :> Production(120, "M1", 1)),
        !.precedence_constraints = <<Constraint(1, 2, "Finish <= Start")>>,
        !.team_shifts = ("M1" :> sh),
        !.holidays = hol] :
     d \in {60, 480, 540},
     sh \in {{"1st"}, {"2nd"}, {"3rd"}, {"1st", "2nd"}},
     hol \in {EmptyMap, ("P1" :> {7})}}
    \cup {[BaseBundle EXCEPT !.team_shifts = ("M1" :> {})]}

\* two products with different delivery times competing for one mechanic
TwoProductBundles ==
    {[BaseBundle EXCEPT
        !.team_capacity = ("M1" :> 1),
        !.delivery_dates = ("P1" :> AtTime(14, 480)) @@ ("P2" :> del2),
        !.product_tasks = <<Product("P1", {1, 3}), Product("P2", {2})>>] :
     del2 \in {AtTime(14, 480), AtTime(14, 960), AtTime(16, 480)}}

\* two products due on Thursday 2025-08-21, P2 at 08:00 and P1 at 18:00,
\* competing for one mechanic
DueSoonBundles ==
    {[BaseBundle EXCEPT
        !.team_capacity = ("M1" :> 1),
        !.delivery_dates = ("P1" :> AtTime(3, 1080)) @@ ("P2" :> AtTime(3, 480)),
        !.product_tasks = <<Product("P1", {2, 3} \ early), Product("P2", {1} \cup early)>>] :
     early \in {{}, {2}}}

\* task 2 is in the catalog but in no product
NoProductBundles ==
    {[BaseBundle EXCEPT
        !.precedence_constraints = pre,
        !.product_tasks = <<Product("P1", {1, 3})>>] :
     pre \in {<<>>, <<Constraint(1, 2, "Finish <= Start")>>}}

\* two teams of one mechanic each: the late part task 1 and task 2 on M2,
\* then tasks 3 and 4 after task 2 on M1; task 5 on M1, then task 6 on M2
TwoTeamBundles ==
    {[BaseBundle EXCEPT
        !.tasks = (1 :> LatePart(100, "M2", 1)) @@ (2 :> Production(100, "M2", 1))
                  @@ (3 :> Production(280, "M1", 1)) @@ (4 :> Production(280, "M1", 1))
                  @@ (5 :> Production(200, "M1", 1)) @@ (6 :> Production(60, "M2", 1)),
        !.late_part_tasks = {1},
        !.precedence_constraints = <<Constraint(2, 3, "Finish <= Start"),
                                     Constraint(2, 4, "Finish <= Start"),
                                     Constraint(5, 6, "Finish <= Start")>>,
        !.team_shifts = ("M1" :> {"1st"}) @@ ("M2" :> {"1st"}),
        !.team_capacity = ("M1" :> 1) @@ ("M2" :> 1),
        !.product_tasks = <<Product("P1", {1, 2, 3, 4, 5, 6})>>]}

\* a chain 1 -> 2 -> 3 of long production tasks, 180 hours in all, and the
\* late part task 6 before task 3
LongChainBundles ==
    {[BaseBundle EXCEPT
        !.tasks = (1 :> Production(3600, "M1", 1)) @@ (2 :> Production(3600, "M1", 1))
                  @@ (3 :> Production(3600, "M1", 1)) @@ (6 :> LatePart(60, "M1", 1)),
        !.late_part_tasks = {6},
        !.late_part_constraints = <<[First |-> 6, Second |-> 3, Product_Line |-> "P1"]>>,
        !.task_to_product = (6 :> "P1"),
        !.precedence_constraints = <<Constraint(1, 2, "Finish <= Start"),
                                     Constraint(2, 3, "Finish <= Start")>>,
        !.product_tasks = <<Product("P1", {1, 2, 3, 6})>>]}

\* the rework task 7, whose inspection 10007 the loader creates, before task
\* 2 and possibly task 3, by rework or by baseline constraints; a rework
\* constraint may also start at task 1, which has no inspection; when task 2
\* is in no product the loader puts task 7 and its inspection in none either
ReworkBundles ==
    {[BaseBundle EXCEPT
        !.tasks = (1 :> Production(60, "M1", 1)) @@ (2 :> Production(60, "M1", 1))
                  @@ (3 :> Production(60, "M1", 1))
                  @@ (7 :> [Production(60, "M1", 1) EXCEPT !.task_type = "Rework"])
                  @@ (10007 :> QualityInspection(30, 1)),
        !.quality_inspections = (10007 :> 7),
        !.quality_requirements = (7 :> 10007),
        !.rework_tasks = {7},
        !.rework_constraints = <<Constraint(7, 2, "Finish <= Start")>>,
        !.product_tasks = <<Product("P1", {1, 3})>>]}
    \cup
    {[BaseBundle EXCEPT
        !.tasks = (1 :> Production(60, "M1", 1)) @@ (2 :> Production(60, "M1", 1))
                  @@ (3 :> Production(60, "M1", 1))
                  @@ (7 :> [Production(60, "M1", 1) EXCEPT !.task_type = "Rework"])
                  @@ (10007 :> QualityInspection(30, 1)),
        !.quality_inspections = (10007 :> 7),
        !.quality_requirements = (7 :> 10007),
        !.rework_tasks = {7},
        !.rework_constraints = rw,
        !.precedence_constraints = pre,
        !.task_to_product = (7 :> "P1") @@ (10007 :> "P1"),
        !.product_tasks = <<Product("P1", {1, 2, 3, 7, 10007})>>] :
     rw \in UNION {{<<Constraint(7, 2, r)>>,
                    <<Constraint(7, 2, r), Constraint(7, 3, "Finish <= Start")>>,
                    <<Constraint(1, 3, r), Constraint(7, 2, "Finish <= Start")>>} :
                   r \in {"Finish <= Start", "Finish = Start"}},
     pre \in {<<>>, <<Constraint(7, 3, "Finish <= Start")>>}}

\* two products; the rework task 7 precedes the rework task 8, which precedes
\* task 2 of P2, and no rework row names a product: the loader puts task 7
\* and its inspection in both products and associates them with the last
ReworkChainBundles ==
    {[BaseBundle EXCEPT
        !.tasks = (1 :> Production(60, "M1", 1)) @@ (2 :> Production(60, "M1", 1))
                  @@ (7 :> [Production(60, "M1", 1) EXCEPT !.task_type = "Rework"])
                  @@ (8 :> [Production(60, "M1", 1) EXCEPT !.task_type = "Rework"])
                  @@ (10007 :> QualityInspection(30, 1))
                  @@ (10008 :> QualityInspection(30, 1)),
        !.quality_inspections = (10007 :> 7) @@ (10008 :> 8),
        !.quality_requirements = (7 :> 10007) @@ (8 :> 10008),
        !.rework_tasks = {7, 8},
        !.rework_constraints = <<Constraint(7, 8, "Finish <= Start"),
                                 Constraint(8, 2, "Finish <= Start")>>,
        !.task_to_product = (7 :> "P2") @@ (10007 :> "P2") @@ (8 :> "P2") @@ (10008 :> "P2"),
        !.delivery_dates = ("P1" :> AtTime(14, 720)) @@ ("P2" :> AtTime(14, 720)),
        !.holidays = hol,
        !.product_tasks = <<Product("P1", {1, 7, 10007}),
                            Product("P2", {2, 7, 10007, 8, 10008})>>] :
     hol \in {EmptyMap, ("P1" :> {4})}}

\* graphs with a cycle or an undefined task
MalformedBundles ==
    {[BaseBundle EXCEPT !.precedence_constraints = pre] :
     pre \in {<<Constraint(1, 2, "Finish <= Start"), Constraint(2, 1, "Finish <= Start")>>,
              <<Constraint(3, 1, "Finish <= Start"), Constraint(1, 2, "Finish <= Start"),
                Constraint(2, 1, "Finish <= Start")>>,
              <<Constraint(1, 9, "Finish <= Start")>>,
              <<Constraint(9, 1, "Finish <= Start")>>}}

Bundles == CapacityBundles \cup PrecedenceBundles \cup StartStartBundles \cup QualityBundles
           \cup SharedInspectionBundles
           \cup LatePartBundles \cup CalendarBundles \cup TwoProductBundles
           \cup DueSoonBundles \cup NoProductBundles \cup TwoTeamBundles
           \cup LongChainBundles \cup ReworkBundles \cup ReworkChainBundles
           \cup MalformedBundles

\* moments at which an invocation may run: Wednesday 2025-08-20 at 07:00 and
\* at 12:00
NowChoices == {AtTime(2, 420), AtTime(2, 720)}

----------------------------------------------------------------------------
(* Specification of the scheduler: invocations of                          *)
(* generate_global_priority_list on a loaded bundle                        *)

\* None, for an optional head count
NoneValue == -1

\* a team configuration of scenario 3: None, or the head counts per team
NoConfig == [none |-> TRUE, mechanic |-> EmptyMap, quality |-> EmptyMap]

\* what a scenario returns: None, or the fields of the returned dict
NoResult ==
    [none |-> TRUE, optimal_mechanics |-> 0, optimal_quality |-> 0, makespan |-> 0,
     config |-> NoConfig, total_workforce |-> 0, max_lateness |-> 0, total_lateness |-> 0]

\* the state of a scenario: its position, its arguments and local variables,
\* the capacities found at entry, what it returned, and what the scenarios
\* run so far have left behind
NoScenario ==
    [pc |-> "none", name |-> "none", entered |-> 0,
     entry_team |-> EmptyMap, entry_quality |-> EmptyMap,
     first_team |-> EmptyMap, first_quality |-> EmptyMap, all_returned |-> TRUE,
     min_mechanics |-> 0, max_mechanics |-> 0, min_quality |-> 0, max_quality |-> 0,
     mech_low |-> 0, mech_high |-> 0, best_mech |-> 0,
     qual_low |-> 0, qual_high |-> 0, best_qual |-> 0,
     mid |-> 0, best_makespan |-> 0, observed |-> {}, phase1_seen |-> {},
     max_iterations |-> 0, iteration |-> 0, phase1_complete |-> FALSE,
     current_mech_config |-> EmptyMap, current_qual_config |-> EmptyMap,
     best_config |-> NoConfig, best_total_workforce |-> 0,
     best_max_lateness |-> 0, best_total_lateness |-> 0,
     iterations_without_improvement |-> 0,
     previous_max_lateness |-> 0, previous_total_lateness |-> 0,
     phase1 |-> [total_workforce |-> 0, max_lateness |-> 0, total_lateness |-> 0],
     partial |-> FALSE,
     improved |-> FALSE, optimization_iterations |-> 0, candidates |-> <<>>,
     result |-> NoResult]

Init ==
    /\ bundle \in Bundles
    /\ late_part_delay_days \in (IF bundle.late_part_tasks = {} THEN {10} ELSE {5, 10, 15})
    /\ team_capacity = bundle.team_capacity
    /\ quality_team_capacity = bundle.quality_team_capacity
    /\ now = AtTime(2, 420)
    /\ dep_order \in {"asc", "desc"}
    /\ silent_mode = FALSE
    /\ pc = "idle"
    /\ task_schedule = EmptyMap
    /\ schedule_order = <<>>
    /\ ready_tasks = {}
    /\ failed_tasks = {}
    /\ task_retry_counts = [t \in DOMAIN bundle.tasks |-> 0]
    /\ scheduled_count = 0
    /\ iteration_count = 0
    /\ dynamic_constraints_cache = [built |-> FALSE, edges |-> <<>>]
    /\ global_priority_list = EmptyMap
    /\ last_op = NoOp
    /\ run = 0
    /\ first_list = [have |-> FALSE, list |-> EmptyMap]
    /\ scen = NoScenario

\* generate_global_priority_list(silent_mode=sm) is called
Generate ==
    /\ scen.pc = "none"
    /\ pc \in {"idle", "done", "error"}
    /\ run < MaxRuns
    /\ \E sm \in BOOLEAN : BeginPass(sm)
    /\ UNCHANGED <<dataVars, capVars, now, global_priority_list, run, first_list,
                   dep_order, scen>>

\* the main loop runs one iteration
Iterate ==
    /\ pc = "loop"
    /\ LoopCondition
    /\ LoopBody
    /\ UNCHANGED <<dataVars, capVars, now, silent_mode, dynamic_constraints_cache,
                   global_priority_list, run, first_list, dep_order, scen>>

\* the loop is left and the priority list is built
Finish ==
    /\ scen.pc = "none"
    /\ PassFinished
    /\ EndPass
    /\ run' = run + 1
    /\ first_list' = IF ~first_list.have /\ pc' = "done"
                     THEN [have |-> TRUE, list |-> global_priority_list']
                     ELSE first_list
    /\ last_op' = NoOp
    /\ UNCHANGED <<dataVars, capVars, now, silent_mode, task_schedule, schedule_order,
                   ready_tasks, failed_tasks, task_retry_counts, scheduled_count,
                   iteration_count, dynamic_constraints_cache, dep_order, scen>>

\* time passes between two invocations
ClockAdvance ==
    /\ scen.pc = "none"
    /\ pc \in {"done", "error"}
    /\ run < MaxRuns
    /\ \E later \in NowChoices : later > now /\ now' = later
    /\ UNCHANGED <<dataVars, capVars, silent_mode, passVars, dynamic_constraints_cache,
                   global_priority_list, run, first_list, dep_order, scen>>

Next == Generate \/ Iterate \/ Finish \/ ClockAdvance

Spec == Init /\ [][Next]_vars

\* invocations on the bundles on which a pass has most to do before it ends:
\* a task in no product, a cycle or an unknown task in the constraints, a
\* task that needs more mechanics than its team has, and two products on one
\* mechanic. The interpreter runs the loop of a started pass on, and the
\* rest of generate_global_priority_list once the loop is left
InitTerminating ==
    /\ Init
    /\ bundle \in NoProductBundles \cup MalformedBundles \cup DueSoonBundles
                   \cup {b \in CapacityBundles : b.team_capacity["M1"] = 1}

SpecTerminating ==
    /\ InitTerminating
    /\ [][Next]_vars
    /\ WF_vars(Iterate)
    /\ WF_vars(Finish)

----------------------------------------------------------------------------
(* calculate_makespan *)

MakespanSentinel == 999999

\* the working days from the day of the first start to the day of the last
\* end, or the sentinel when a task is left unplaced
calculate_makespan ==
    IF DOMAIN task_schedule = {} THEN 0
    ELSE IF Cardinality(DOMAIN task_schedule) < total_tasks THEN MakespanSentinel
    ELSE LET start_time == CHOOSE s \in {task_schedule[t].start_time : t \in DOMAIN task_schedule} :
                               \A t \in DOMAIN task_schedule : s <= task_schedule[t].start_time
             end_time == CHOOSE e \in {task_schedule[t].end_time : t \in DOMAIN task_schedule} :
                             \A t \in DOMAIN task_schedule : e >= task_schedule[t].end_time
         IN Cardinality({d \in DayOf(start_time)..DayOf(end_time) :
                \E i \in 1..Len(product_tasks) :
                    is_working_day(AtTime(d, 0), product_tasks[i].product)})

----------------------------------------------------------------------------
(* calculate_lateness_metrics *)

LatenessSentinel == 999999

\* the metrics of every product with a delivery date, from the priority list
\* of the last completed call of generate_global_priority_list;
\* timedelta.days is the whole number of days, rounded down
calculate_lateness_metrics(priority_list) ==
    [product \in DOMAIN delivery_dates |->
        LET listed == {t \in DOMAIN priority_list : priority_list[t].product_line = product}
            ends == {priority_list[t].scheduled_end : t \in listed}
            last_task_end == CHOOSE e \in ends : \A o \in ends : o <= e
            lateness_days == (last_task_end - delivery_dates[product]) \div MinutesPerDay
        IN IF listed # {}
           THEN [projected_completion |-> last_task_end,
                 lateness_days |-> lateness_days,
                 on_time |-> lateness_days <= 0,
                 total_tasks |-> Cardinality(listed)]
           ELSE [projected_completion |-> NoneValue,
                 lateness_days |-> LatenessSentinel,
                 on_time |-> FALSE,
                 total_tasks |-> 0]]

\* max(lateness_days of the scheduled products, default=0)
MaxLateness(metrics) ==
    LET days == {metrics[p].lateness_days : p \in {q \in DOMAIN metrics :
                                              metrics[q].lateness_days < LatenessSentinel}}
    IN IF days = {} THEN 0 ELSE CHOOSE d \in days : \A o \in days : o <= d

\* sum(max(0, lateness_days) of the scheduled products)
TotalLateness(metrics) ==
    LET known == {q \in DOMAIN metrics : metrics[q].lateness_days < LatenessSentinel}
    IN SumOver(known, [q \in known |-> Max(0, metrics[q].lateness_days)])

----------------------------------------------------------------------------
(* The scenarios: scenario_1_custom_headcount,                             *)
(* scenario_2_minimize_makespan and                                        *)
(* scenario_3_multidimensional_optimization, each around calls of          *)
(* generate_global_priority_list                                           *)

MaxScenarios == 2       \* scenarios run one after the other in a behaviour
MaxHeadcount == 3       \* the largest head count passed to a scenario

\* "for team in capacity: capacity[team] = headcount"
SetAll(capacity, headcount) == [team \in DOMAIN capacity |-> headcount]

\* "for team, c in custom.items(): if team in capacity: capacity[team] = c"
SetKnown(capacity, custom) ==
    [team \in DOMAIN capacity |->
        IF team \in DOMAIN custom THEN custom[team] ELSE capacity[team]]

\* a restore that leaves the capacities as the scenario set them
RestoreNothing(capacity, saved) == capacity

\* "for team, c in saved.items(): capacity[team] = c"
RestoreFrom(capacity, saved) ==
    [team \in DOMAIN capacity \cup DOMAIN saved |->
        IF team \in DOMAIN saved THEN saved[team] ELSE capacity[team]]

\* the capacities scenario 1 schedules with (lines 1776-1791)
CustomCapacity(capacity, custom, headcount) ==
    IF DOMAIN custom # {} THEN SetKnown(capacity, custom)
    ELSE IF headcount # NoneValue THEN SetAll(capacity, headcount)
    ELSE capacity

\* the call of generate_global_priority_list has come to its end
PassEnded == pc = "error" \/ PassFinished

\* ... by an exception
PassRaised ==
    \/ pc = "error"
    \/ PassFinished /\ \E t \in DOMAIN task_schedule : SlackRaises(t)

\* the rest of generate_global_priority_list, when schedule_tasks returned
ReturnFromPass ==
    IF pc = "error" THEN UNCHANGED <<pc, global_priority_list>> ELSE EndPass

\* the record of a scenario that is entered now
Entered(name, position) ==
    [NoScenario EXCEPT
        !.pc = position, !.name = name, !.entered = scen.entered + 1,
        !.entry_team = team_capacity, !.entry_quality = quality_team_capacity,
        !.first_team = IF scen.entered = 0 THEN team_capacity ELSE scen.first_team,
        !.first_quality = IF scen.entered = 0 THEN quality_team_capacity
                          ELSE scen.first_quality,
        !.all_returned = scen.all_returned /\ scen.pc # "raised"]

\* scenario_1_custom_headcount up to its call of schedule_tasks, with one
\* mechanic team set to a single worker or every team set to a head count
Scenario1Call ==
    /\ scen.pc \in {"none", "returned", "raised"}
    /\ pc \in {"idle", "done", "error"}
    /\ scen.entered < MaxScenarios
    /\ \E a \in {[mechanic_headcount |-> NoneValue, quality_headcount |-> NoneValue,
                   custom_team_capacity |-> ("M1" :> 1)],
                  [mechanic_headcount |-> MaxHeadcount, quality_headcount |-> 1,
                   custom_team_capacity |-> EmptyMap]} :
          /\ team_capacity' = CustomCapacity(team_capacity, a.custom_team_capacity,
                                             a.mechanic_headcount)
          /\ quality_team_capacity' = CustomCapacity(quality_team_capacity, EmptyMap,
                                                     a.quality_headcount)
    /\ scen' = Entered("scenario_1", "s1_run")
    /\ BeginPass(FALSE)
    /\ UNCHANGED <<dataVars, now, global_priority_list, run, first_list, dep_order>>

\* scenario_1_custom_headcount from the return of schedule_tasks: the list,
\* the export, and the restore of the saved capacities (lines 1803-1843)
Scenario1Return ==
    /\ scen.pc = "s1_run"
    /\ PassEnded
    /\ ReturnFromPass
    /\ IF PassRaised
       THEN /\ scen' = [scen EXCEPT !.pc = "raised"]
            /\ UNCHANGED capVars
       ELSE \E export_ok \in BOOLEAN :
               IF export_ok
               THEN /\ team_capacity' = scen.entry_team
                    /\ quality_team_capacity' = scen.entry_quality
                    /\ scen' = [scen EXCEPT
                                   !.pc = "returned",
                                   !.result = [NoResult EXCEPT
                                                  !.none = FALSE,
                                                  !.makespan = calculate_makespan]]
               ELSE /\ scen' = [scen EXCEPT !.pc = "raised"]   \* to_csv raises
                    /\ UNCHANGED capVars
    /\ UNCHANGED <<dataVars, now, silent_mode, task_schedule, schedule_order, ready_tasks,
                   failed_tasks, task_retry_counts, scheduled_count, iteration_count,
                   dynamic_constraints_cache, last_op, run, first_list, dep_order>>

\* scenario_2_minimize_makespan is entered (lines 1860-1867)
Scenario2Call ==
    /\ scen.pc \in {"none", "returned", "raised"}
    /\ pc \in {"idle", "done", "error"}
    /\ scen.entered < MaxScenarios
    /\ \E max_mechanics \in {MaxHeadcount}, max_quality \in 1..2 :
          scen' = [Entered("scenario_2", "s2_mech") EXCEPT
                                    !.min_mechanics = 1, !.max_mechanics = max_mechanics,
                                    !.min_quality = 1, !.max_quality = max_quality,
                                    !.mech_low = 1, !.mech_high = max_mechanics,
                                    !.best_mech = max_mechanics,
                                    !.best_makespan = Infinity]
    /\ UNCHANGED <<dataVars, capVars, now, silent_mode, passVars, dynamic_constraints_cache,
                   global_priority_list, run, first_list, dep_order>>

\* the head of the phase 1 loop: the next head count is tried, or phase 2
\* begins (lines 1869-1882 and 1908-1917)
Scenario2MechTry ==
    /\ scen.pc = "s2_mech"
    /\ IF scen.mech_low <= scen.mech_high
       THEN LET mech_mid == (scen.mech_low + scen.mech_high) \div 2 IN
            /\ team_capacity' = SetAll(team_capacity, mech_mid)
            /\ quality_team_capacity' = SetAll(quality_team_capacity, scen.max_quality)
            /\ scen' = [scen EXCEPT !.pc = "s2_mech_run", !.mid = mech_mid]
            /\ BeginPass(TRUE)
       ELSE /\ team_capacity' = SetAll(team_capacity, scen.best_mech)
            /\ scen' = [scen EXCEPT !.pc = "s2_qual",
                                    !.qual_low = scen.min_quality,
                                    !.qual_high = scen.max_quality,
                                    !.best_qual = scen.max_quality]
            /\ UNCHANGED <<quality_team_capacity, silent_mode, passVars,
                           dynamic_constraints_cache>>
    /\ UNCHANGED <<dataVars, now, global_priority_list, run, first_list, dep_order>>

\* what the phase 1 loop has seen of a head count at which every task was
\* placed: the makespan printed at line 1895, and the clock of the pass
Observation(mechanics) ==
    [mechanics |-> mechanics, makespan |-> calculate_makespan, at |-> now]

\* the body of the phase 1 loop after the call (lines 1884-1906)
Scenario2MechReturn ==
    /\ scen.pc = "s2_mech_run"
    /\ PassEnded
    /\ ReturnFromPass
    /\ scen' = IF PassRaised \/ Cardinality(DOMAIN task_schedule) < total_tasks
               THEN [scen EXCEPT !.pc = "s2_mech", !.mech_low = scen.mid + 1]
               ELSE IF calculate_makespan < scen.best_makespan
               THEN [scen EXCEPT !.pc = "s2_mech", !.best_makespan = calculate_makespan,
                                 !.best_mech = scen.mid, !.mech_high = scen.mid - 1,
                                 !.observed = @ \cup {Observation(scen.mid)}]
               ELSE [scen EXCEPT !.pc = "s2_mech", !.mech_low = scen.mid + 1,
                                 !.observed = @ \cup {Observation(scen.mid)}]
    /\ UNCHANGED <<dataVars, capVars, now, silent_mode, task_schedule, schedule_order,
                   ready_tasks, failed_tasks, task_retry_counts, scheduled_count,
                   iteration_count, dynamic_constraints_cache, last_op, run, first_list,
                   dep_order>>

\* the head of the phase 2 loop: the next head count is tried, or the final
\* run of phase 3 begins (lines 1919-1930 and 1956-1967)
Scenario2QualTry ==
    /\ scen.pc = "s2_qual"
    /\ IF scen.qual_low <= scen.qual_high
       THEN LET qual_mid == (scen.qual_low + scen.qual_high) \div 2 IN
            /\ quality_team_capacity' = SetAll(quality_team_capacity, qual_mid)
            /\ scen' = [scen EXCEPT !.pc = "s2_qual_run", !.mid = qual_mid]
            /\ UNCHANGED team_capacity
       ELSE /\ team_capacity' = SetAll(team_capacity, scen.best_mech)
            /\ quality_team_capacity' = SetAll(quality_team_capacity, scen.best_qual)
            /\ scen' = [scen EXCEPT !.pc = "s2_final_run"]
    /\ BeginPass(TRUE)
    /\ UNCHANGED <<dataVars, now, global_priority_list, run, first_list, dep_order>>

\* the body of the phase 2 loop after the call (lines 1932-1954)
Scenario2QualReturn ==
    /\ scen.pc = "s2_qual_run"
    /\ PassEnded
    /\ ReturnFromPass
    /\ scen' = IF PassRaised \/ Cardinality(DOMAIN task_schedule) < total_tasks
               THEN [scen EXCEPT !.pc = "s2_qual", !.qual_low = scen.mid + 1]
               ELSE IF calculate_makespan <= scen.best_makespan
               THEN [scen EXCEPT !.pc = "s2_qual", !.best_makespan = calculate_makespan,
                                 !.best_qual = scen.mid, !.qual_high = scen.mid - 1]
               ELSE [scen EXCEPT !.pc = "s2_qual", !.qual_low = scen.mid + 1]
    /\ UNCHANGED <<dataVars, capVars, now, silent_mode, task_schedule, schedule_order,
                   ready_tasks, failed_tasks, task_retry_counts, scheduled_count,
                   iteration_count, dynamic_constraints_cache, last_op, run, first_list,
                   dep_order>>

\* phase 3 after the final run: the export and the restore of the
\* capacities loaded from the file (lines 1969-2021)
Scenario2FinalReturn ==
    /\ scen.pc = "s2_final_run"
    /\ PassEnded
    /\ ReturnFromPass
    /\ IF PassRaised
       THEN /\ scen' = [scen EXCEPT !.pc = "raised"]
            /\ UNCHANGED capVars
       ELSE \E export_ok \in BOOLEAN :
               IF export_ok
               THEN /\ team_capacity' = RestoreFrom(team_capacity, _original_team_capacity)
                    /\ quality_team_capacity' =
                           RestoreFrom(quality_team_capacity, _original_quality_capacity)
                    /\ scen' = [scen EXCEPT
                                   !.pc = "returned",
                                   !.result = [NoResult EXCEPT
                                                  !.none = FALSE,
                                                  !.optimal_mechanics = scen.best_mech,
                                                  !.optimal_quality = scen.best_qual,
                                                  !.makespan = calculate_makespan]]
               ELSE /\ scen' = [scen EXCEPT !.pc = "raised"]   \* to_csv raises
                    /\ UNCHANGED capVars
    /\ UNCHANGED <<dataVars, now, silent_mode, task_schedule, schedule_order, ready_tasks,
                   failed_tasks, task_retry_counts, scheduled_count, iteration_count,
                   dynamic_constraints_cache, last_op, run, first_list, dep_order>>

----------------------------------------------------------------------------
(* scenario_3_multidimensional_optimization and its helpers *)

MaxIterations == 22     \* the max_iterations argument of scenario 3

\* the order in which the capacity tables list the teams, which is the
\* iteration order of the capacity dicts and of the configurations
TeamNames == <<"M1", "M2", "Q1", "Q2">>

\* the first team of a set, in the order of the tables
FirstOf(teams) ==
    TeamNames[CHOOSE i \in 1..Len(TeamNames) :
                  /\ TeamNames[i] \in teams
                  /\ \A j \in 1..(i - 1) : TeamNames[j] \notin teams]

MinValue(config) ==
    CHOOSE v \in {config[team] : team \in DOMAIN config} :
        \A team \in DOMAIN config : v <= config[team]

\* sum(config.values())
Workforce(config) == SumOver(DOMAIN config, config)

Raise(config, team, by) == [config EXCEPT ![team] = @ + by]

_identify_blocking_teams(unscheduled_tasks) ==
    [mechanic |-> {tasks[t].team : t \in {u \in unscheduled_tasks : ~tasks[u].is_quality}},
     quality |-> IF \E u \in unscheduled_tasks : tasks[u].is_quality
                 THEN DOMAIN quality_team_capacity ELSE {}]

\* peak_concurrent / max_concurrent of a team: the most workers of the team
\* busy at the start of one of its tasks
PeakConcurrent(team) ==
    LET mine == {t \in DOMAIN task_schedule : task_schedule[t].team = team}
        peaks == {UsageAt(task_schedule, team, task_schedule[t].start_time) : t \in mine}
    IN IF peaks = {} THEN 0 ELSE CHOOSE v \in peaks : \A o \in peaks : o <= v

\* the teams whose peak reaches 0.9 of their capacity
_identify_bottleneck_teams ==
    LET teams == {task_schedule[t].team : t \in DOMAIN task_schedule}
        hot == {team \in teams : 10 * PeakConcurrent(team) >= 9 * CapacityOf(team)}
    IN [mechanic |-> hot \cap DOMAIN team_capacity,
        quality |-> hot \ DOMAIN team_capacity]

minutes_per_shift == 510        \* 8.5 * 60

ShiftsPerDay(team) ==
    IF team \in DOMAIN team_capacity
    THEN IF team \in DOMAIN team_shifts THEN Cardinality(team_shifts[team]) ELSE 0
    ELSE Cardinality(UNION {quality_team_shifts[i].shifts :
                               i \in {k \in 1..Len(quality_team_shifts) :
                                         quality_team_shifts[k].team = team}})

\* _calculate_team_utilization, per team: the scheduled worker-minutes, the
\* available worker-minutes of one day, and the peak; the utilization is
\* scheduled_minutes / (per_day * total_days), or 0 when nothing is available
_calculate_team_utilization(team) ==
    [scheduled_minutes |-> TeamLoad(team),
     per_day |-> (IF team \in DOMAIN team_capacity THEN team_capacity[team]
                  ELSE quality_team_capacity[team]) * ShiftsPerDay(team) * minutes_per_shift,
     max_concurrent |-> PeakConcurrent(team)]

NothingAvailable(team) ==
    _calculate_team_utilization(team).per_day = 0 \/ calculate_makespan = 0

\* utilization < 0.7
Underutilized(team) ==
    \/ NothingAvailable(team)
    \/ (10 * _calculate_team_utilization(team).scheduled_minutes)
          \div (7 * _calculate_team_utilization(team).per_day) < calculate_makespan

\* the utilization of team a is less than that of team b
LessUtilized(a, b) ==
    LET ua == _calculate_team_utilization(a)
        ub == _calculate_team_utilization(b)
        na == IF NothingAvailable(a) THEN 0 ELSE ua.scheduled_minutes
        da == IF NothingAvailable(a) THEN 1 ELSE ua.per_day
        nb == IF NothingAvailable(b) THEN 0 ELSE ub.scheduled_minutes
        db == IF NothingAvailable(b) THEN 1 ELSE ub.per_day
    IN na * db < nb * da

RECURSIVE SortedByUtilization(_)
\* sorted(team_utilization.items(), key=utilization): a stable sort
SortedByUtilization(teams) ==
    IF teams = {} THEN <<>>
    ELSE LET least == CHOOSE a \in teams :
                          \A b \in teams \ {a} :
                              \/ LessUtilized(a, b)
                              \/ ~LessUtilized(b, a) /\ PositionIn(TeamNames, a) < PositionIn(TeamNames, b)
         IN <<least>> \o SortedByUtilization(teams \ {least})

\* every team as a candidate, whatever its utilization and its capacity
AllTeamsAsCandidates(best_config, min_mechanics, min_quality) ==
    LET mechanic == SortedByUtilization(DOMAIN team_capacity)
        quality == SortedByUtilization(DOMAIN quality_team_capacity)
    IN [i \in 1..Len(mechanic) |-> [kind |-> "mechanic", team |-> mechanic[i]]]
       \o [i \in 1..Len(quality) |-> [kind |-> "quality", team |-> quality[i]]]

\* the reductions the two for loops of phase 2 try, in their order (lines
\* 2415-2458): a mechanic team, or a quality team above its peak
Candidates(best_config, min_mechanics, min_quality) ==
    LET mechanic == SelectSeq(SortedByUtilization(DOMAIN team_capacity),
                        LAMBDA team : /\ Underutilized(team)
                                      /\ best_config.mechanic[team] > min_mechanics)
        quality == SelectSeq(SortedByUtilization(DOMAIN quality_team_capacity),
                       LAMBDA team : /\ Underutilized(team)
                                     /\ best_config.quality[team] > min_quality
                                     /\ best_config.quality[team] > PeakConcurrent(team))
    IN [i \in 1..Len(mechanic) |-> [kind |-> "mechanic", team |-> mechanic[i]]]
       \o [i \in 1..Len(quality) |-> [kind |-> "quality", team |-> quality[i]]]

\* test_config of a candidate
TestConfig(best_config, candidate) ==
    IF candidate.kind = "mechanic"
    THEN [best_config EXCEPT !.mechanic = Raise(@, candidate.team, -1)]
    ELSE [best_config EXCEPT !.quality = Raise(@, candidate.team, -1)]

max_iterations_without_improvement == 20
max_optimization_iterations == 50

\* the handler of an exception in a phase 1 iteration (lines 2364-2371)
Phase1Except(s) ==
    LET min_mech == MinValue(s.current_mech_config)
        lowest == {team \in DOMAIN s.current_mech_config :
                      /\ s.current_mech_config[team] = min_mech
                      /\ s.current_mech_config[team] < s.max_mechanics}
    IN IF lowest = {} THEN s
       ELSE [s EXCEPT !.current_mech_config = Raise(@, FirstOf(lowest), 1)]

\* an iteration with unplaced tasks that is taken as the best
Phase1BlockedAsBest(s) ==
    [Phase1Except(s) EXCEPT
        !.partial = TRUE,
        !.best_config = [none |-> FALSE, mechanic |-> s.current_mech_config,
                         quality |-> s.current_qual_config],
        !.phase1_complete = (Phase1Except(s) = s)]

\* a phase 1 iteration that left tasks unplaced (lines 2241-2268)
Phase1Blocked(s) ==
    LET blocking_teams == _identify_blocking_teams(all_tasks \ DOMAIN task_schedule)
        mech == {team \in blocking_teams.mechanic :
                    s.current_mech_config[team] < s.max_mechanics}
        qual == {team \in blocking_teams.quality :
                    s.current_qual_config[team] < s.max_quality}
        capacity_increased == mech # {} \/ qual # {}
    IN [s EXCEPT
           !.partial = TRUE,
           !.current_mech_config = [team \in DOMAIN @ |->
                                       IF team \in mech THEN @[team] + 1 ELSE @[team]],
           !.current_qual_config = [team \in DOMAIN @ |->
                                       IF team \in qual THEN @[team] + 1 ELSE @[team]],
           !.phase1_complete = ~capacity_increased]

\* "if not improved": the capacity of one team grows (lines 2322-2362); the
\* bottleneck teams are iterated as a set, in an order that is not specified
Phase1Grow(s) ==
    LET bottlenecks == _identify_bottleneck_teams
        mech == {team \in bottlenecks.mechanic :
                    s.current_mech_config[team] < s.max_mechanics}
        qual == {team \in bottlenecks.quality :
                    s.current_qual_config[team] < s.max_quality}
        min_mech == {team \in DOMAIN s.current_mech_config :
                        /\ s.current_mech_config[team] = MinValue(s.current_mech_config)
                        /\ s.current_mech_config[team] < s.max_mechanics}
        min_qual == {team \in DOMAIN s.current_qual_config :
                        /\ s.current_qual_config[team] = MinValue(s.current_qual_config)
                        /\ s.current_qual_config[team] < s.max_quality}
    IN IF mech # {}
       THEN {[s EXCEPT !.current_mech_config = Raise(@, team, 2)] : team \in mech}
       ELSE IF qual # {}
       THEN {[s EXCEPT !.current_qual_config = Raise(@, team, 1)] : team \in qual}
       ELSE IF min_mech # {}
       THEN {[s EXCEPT !.current_mech_config = Raise(@, FirstOf(min_mech), 1)]}
       ELSE IF min_qual # {}
       THEN {[s EXCEPT !.current_qual_config = Raise(@, FirstOf(min_qual), 1)]}
       ELSE {[s EXCEPT !.phase1_complete = TRUE]}

\* a phase 1 iteration that placed every task (lines 2270-2362)
Phase1Measured(s, metrics) ==
    LET max_lateness == MaxLateness(metrics)
        total_lateness == TotalLateness(metrics)
        total_workforce == Workforce(s.current_mech_config) + Workforce(s.current_qual_config)
        improved == \/ max_lateness < s.previous_max_lateness
                    \/ /\ max_lateness = s.previous_max_lateness
                       /\ total_lateness < s.previous_total_lateness
        s1 == IF max_lateness < s.previous_max_lateness
              THEN [s EXCEPT !.previous_max_lateness = max_lateness]
              ELSE IF improved THEN [s EXCEPT !.previous_total_lateness = total_lateness]
              ELSE s
        better == \/ max_lateness < s.best_max_lateness
                  \/ /\ max_lateness = s.best_max_lateness
                     /\ total_lateness < s.best_total_lateness
        s2 == IF better
              THEN [s1 EXCEPT !.best_max_lateness = max_lateness,
                              !.best_total_lateness = total_lateness,
                              !.best_config = [none |-> FALSE,
                                               mechanic |-> s.current_mech_config,
                                               quality |-> s.current_qual_config],
                              !.best_total_workforce = total_workforce,
                              !.iterations_without_improvement = 0,
                              !.phase1_complete = (max_lateness = 0)]
              ELSE [s1 EXCEPT !.iterations_without_improvement = @ + 1]
    IN IF s2.iterations_without_improvement >= max_iterations_without_improvement
       THEN {[s2 EXCEPT !.phase1_complete = TRUE]}
       ELSE IF improved THEN {s2}
       ELSE Phase1Grow(s2)

\* scenario_3_multidimensional_optimization is entered (lines 2194-2218)
Scenario3Call ==
    /\ scen.pc \in {"none", "returned", "raised"}
    /\ pc \in {"idle", "done", "error"}
    /\ scen.entered < MaxScenarios
    /\ \E limits \in {<<1, 1>>, <<MaxHeadcount - 1, 1>>, <<20, 10>>} :
          scen' = [Entered("scenario_3", "s3_phase1") EXCEPT
                      !.min_mechanics = 1, !.max_mechanics = limits[1],
                      !.min_quality = 1, !.max_quality = limits[2],
                      !.max_iterations = MaxIterations,
                      !.current_mech_config = SetAll(_original_team_capacity, 1),
                      !.current_qual_config = SetAll(_original_quality_capacity, 1),
                      !.best_total_workforce = Infinity,
                      !.best_max_lateness = Infinity,
                      !.best_total_lateness = Infinity,
                      !.previous_max_lateness = Infinity,
                      !.previous_total_lateness = Infinity]
    /\ UNCHANGED <<dataVars, capVars, now, silent_mode, passVars, dynamic_constraints_cache,
                   global_priority_list, run, first_list, dep_order>>

\* the head of the phase 1 loop: the next configuration is scheduled; or the
\* scenario returns None for want of a configuration; or phase 2 begins
\* (lines 2220-2235 and 2373-2394)
Scenario3Phase1Try ==
    /\ scen.pc = "s3_phase1"
    /\ IF scen.iteration < scen.max_iterations /\ ~scen.phase1_complete
       THEN /\ team_capacity' = RestoreFrom(team_capacity, scen.current_mech_config)
            /\ quality_team_capacity' =
                   RestoreFrom(quality_team_capacity, scen.current_qual_config)
            /\ scen' = [scen EXCEPT !.pc = "s3_phase1_run", !.iteration = @ + 1]
            /\ BeginPass(TRUE)
       ELSE IF scen.best_config.none
       THEN /\ team_capacity' = RestoreFrom(team_capacity, _original_team_capacity)
            /\ quality_team_capacity' =
                   RestoreFrom(quality_team_capacity, _original_quality_capacity)
            /\ scen' = [scen EXCEPT !.pc = "returned", !.result = NoResult]
            /\ UNCHANGED <<silent_mode, passVars, dynamic_constraints_cache>>
       ELSE /\ scen' = [scen EXCEPT
                           !.pc = "s3_phase2",
                           !.phase1 = [total_workforce |-> scen.best_total_workforce,
                                       max_lateness |-> scen.best_max_lateness,
                                       total_lateness |-> scen.best_total_lateness],
                           !.improved = TRUE,
                           !.optimization_iterations = 0]
            /\ UNCHANGED <<capVars, silent_mode, passVars, dynamic_constraints_cache>>
    /\ UNCHANGED <<dataVars, now, global_priority_list, run, first_list, dep_order>>

\* what a phase 1 iteration has seen: its configuration, whether every task
\* was placed, whether the call raised, and the lateness of its schedule
Phase1Observation(metrics) ==
    [iteration |-> scen.iteration,
     placed_all |-> Cardinality(DOMAIN task_schedule) >= total_tasks,
     raised |-> PassRaised,
     max_lateness |-> MaxLateness(metrics),
     total_lateness |-> TotalLateness(metrics),
     on_time |-> \A q \in DOMAIN metrics :
                    metrics[q].lateness_days < LatenessSentinel
                        => metrics[q].projected_completion <= delivery_dates[q],
     improved |-> \/ MaxLateness(metrics) < scen.previous_max_lateness
                  \/ /\ MaxLateness(metrics) = scen.previous_max_lateness
                     /\ TotalLateness(metrics) < scen.previous_total_lateness,
     mechanic |-> scen.current_mech_config,
     quality |-> scen.current_qual_config]

\* the body of the phase 1 loop after the call (lines 2237-2371)
Scenario3Phase1Return ==
    /\ scen.pc = "s3_phase1_run"
    /\ PassEnded
    /\ ReturnFromPass
    /\ \E next \in (IF PassRaised THEN {Phase1Except(scen)}
                    ELSE IF Cardinality(DOMAIN task_schedule) < total_tasks
                    THEN {Phase1Blocked(scen)}
                    ELSE Phase1Measured(scen,
                             calculate_lateness_metrics(global_priority_list'))) :
          scen' = [next EXCEPT
                      !.pc = "s3_phase1",
                      !.phase1_seen = @ \cup {Phase1Observation(
                                              calculate_lateness_metrics(global_priority_list'))}]
    /\ UNCHANGED <<dataVars, capVars, now, silent_mode, task_schedule, schedule_order,
                   ready_tasks, failed_tasks, task_retry_counts, scheduled_count,
                   iteration_count, dynamic_constraints_cache, last_op, run, first_list,
                   dep_order>>

\* the head of the phase 2 loop: the best configuration is scheduled, to be
\* analysed or, when the loop is over, as the final run of phase 3 (lines
\* 2396-2409 and 2463-2472)
Scenario3Phase2Try ==
    /\ scen.pc = "s3_phase2"
    /\ team_capacity' = RestoreFrom(team_capacity, scen.best_config.mechanic)
    /\ quality_team_capacity' = RestoreFrom(quality_team_capacity, scen.best_config.quality)
    /\ scen' = IF scen.improved /\ scen.optimization_iterations < max_optimization_iterations
               THEN [scen EXCEPT !.pc = "s3_phase2_run", !.improved = FALSE,
                                 !.optimization_iterations = @ + 1]
               ELSE [scen EXCEPT !.pc = "s3_final_run"]
    /\ BeginPass(TRUE)
    /\ UNCHANGED <<dataVars, now, global_priority_list, run, first_list, dep_order>>

\* the utilization of the teams under the best configuration is measured
\* (lines 2409-2417); an exception of the call is not handled
Scenario3Phase2Return ==
    /\ scen.pc = "s3_phase2_run"
    /\ PassEnded
    /\ ReturnFromPass
    /\ scen' = IF PassRaised THEN [scen EXCEPT !.pc = "raised"]
               ELSE [scen EXCEPT
                        !.pc = "s3_phase2_pick",
                        !.candidates = Candidates(scen.best_config, scen.min_mechanics,
                                                  scen.min_quality)]
    /\ UNCHANGED <<dataVars, capVars, now, silent_mode, task_schedule, schedule_order,
                   ready_tasks, failed_tasks, task_retry_counts, scheduled_count,
                   iteration_count, dynamic_constraints_cache, last_op, run, first_list,
                   dep_order>>

\* the next reduction is tested by _test_configuration_with_lateness_target
\* (lines 2596-2610), or the for loops are over
Scenario3Phase2Pick ==
    /\ scen.pc = "s3_phase2_pick"
    /\ IF scen.candidates = <<>>
       THEN /\ scen' = [scen EXCEPT !.pc = "s3_phase2"]
            /\ UNCHANGED <<capVars, silent_mode, passVars, dynamic_constraints_cache>>
       ELSE LET config == TestConfig(scen.best_config, Head(scen.candidates)) IN
            /\ team_capacity' = RestoreFrom(team_capacity, config.mechanic)
            /\ quality_team_capacity' = RestoreFrom(quality_team_capacity, config.quality)
            /\ scen' = [scen EXCEPT !.pc = "s3_phase2_test"]
            /\ BeginPass(TRUE)
    /\ UNCHANGED <<dataVars, now, global_priority_list, run, first_list, dep_order>>

\* the verdict of _test_configuration_with_lateness_target (lines 2612-2627)
\* and what the for loop does with it (lines 2426-2433 and 2451-2458)
Scenario3Phase2TestReturn ==
    /\ scen.pc = "s3_phase2_test"
    /\ PassEnded
    /\ ReturnFromPass
    /\ LET metrics == calculate_lateness_metrics(global_priority_list')
           kept == /\ ~PassRaised
                   /\ Cardinality(DOMAIN task_schedule) >= total_tasks
                   /\ MaxLateness(metrics) <= scen.best_max_lateness
                   /\ 10 * TotalLateness(metrics) <= 11 * scen.best_total_lateness
       IN scen' = IF kept
                  THEN [scen EXCEPT
                           !.pc = "s3_phase2",
                           !.best_config = TestConfig(scen.best_config, Head(scen.candidates)),
                           !.best_total_workforce = @ - 1,
                           !.improved = TRUE]
                  ELSE [scen EXCEPT !.pc = "s3_phase2_pick", !.candidates = Tail(@)]
    /\ UNCHANGED <<dataVars, capVars, now, silent_mode, task_schedule, schedule_order,
                   ready_tasks, failed_tasks, task_retry_counts, scheduled_count,
                   iteration_count, dynamic_constraints_cache, last_op, run, first_list,
                   dep_order>>

\* phase 3 after the final run: the metrics, the report, the export and the
\* restore of the capacities loaded from the file (lines 2474-2564)
Scenario3FinalReturn ==
    /\ scen.pc = "s3_final_run"
    /\ PassEnded
    /\ ReturnFromPass
    /\ LET metrics == calculate_lateness_metrics(global_priority_list')
           original_total == Workforce(_original_team_capacity)
                             + Workforce(_original_quality_capacity)
           new_total == Workforce(scen.best_config.mechanic)
                        + Workforce(scen.best_config.quality)
       IN IF PassRaised \/ (new_total > original_total /\ original_total = 0)
          THEN /\ scen' = [scen EXCEPT !.pc = "raised"]   \* also ZeroDivisionError
               /\ UNCHANGED capVars
          ELSE \E export_ok \in BOOLEAN :
                  IF export_ok
                  THEN /\ team_capacity' = RestoreFrom(team_capacity, _original_team_capacity)
                       /\ quality_team_capacity' =
                              RestoreFrom(quality_team_capacity, _original_quality_capacity)
                       /\ scen' = [scen EXCEPT
                                      !.pc = "returned",
                                      !.result = [NoResult EXCEPT
                                                     !.none = FALSE,
                                                     !.config = scen.best_config,
                                                     !.total_workforce = new_total,
                                                     !.makespan = calculate_makespan,
                                                     !.max_lateness = MaxLateness(metrics),
                                                     !.total_lateness = TotalLateness(metrics)]]
                  ELSE /\ scen' = [scen EXCEPT !.pc = "raised"]   \* to_csv raises
                       /\ UNCHANGED capVars
    /\ UNCHANGED <<dataVars, now, silent_mode, task_schedule, schedule_order, ready_tasks,
                   failed_tasks, task_retry_counts, scheduled_count, iteration_count,
                   dynamic_constraints_cache, last_op, run, first_list, dep_order>>

\* time passes between two iterations of the loops of scenario 3
ScenarioClockAdvance ==
    /\ scen.pc \in {"s3_phase1", "s3_phase2"}
    /\ \E later \in NowChoices : later > now /\ now' = later
    /\ UNCHANGED <<dataVars, capVars, silent_mode, passVars, dynamic_constraints_cache,
                   global_priority_list, run, first_list, dep_order, scen>>

\* the bundles the scenarios are run on
ScenarioBundles ==
    {b \in CapacityBundles : b.team_capacity["M1"] = 2 /\ b.tasks[3].mechanics_required = 1}
    \cup {b \in QualityBundles : /\ b.tasks[1].duration = 60
                                 /\ Len(b.quality_team_shifts) = 1
                                 /\ b.quality_team_capacity["Q1"] = 1}
    \cup DueSoonBundles \cup TwoTeamBundles \cup MalformedBundles

InitScenario ==
    /\ Init
    /\ bundle \in ScenarioBundles
    /\ late_part_delay_days = 10
    /\ dep_order = "asc"

NextScenario ==
    \/ Scenario1Call
    \/ Scenario1Return
    \/ Scenario2Call
    \/ Scenario2MechTry
    \/ Scenario2MechReturn
    \/ Scenario2QualTry
    \/ Scenario2QualReturn
    \/ Scenario2FinalReturn
    \/ Scenario3Call
    \/ Scenario3Phase1Try
    \/ Scenario3Phase1Return
    \/ Scenario3Phase2Try
    \/ Scenario3Phase2Return
    \/ Scenario3Phase2Pick
    \/ Scenario3Phase2TestReturn
    \/ Scenario3FinalReturn
    \/ ScenarioClockAdvance
    \/ Iterate

SpecScenario == InitScenario /\ [][NextScenario]_vars

----------------------------------------------------------------------------
(* Properties of a scheduling pass *)

Placed == DOMAIN task_schedule
EffectiveEdges == Range(dynamic_constraints_cache.edges)
BothPlaced(e) == e.First \in Placed /\ e.Second \in Placed

\* the minutes at which some placed task is running
BusyMinutes ==
    UNION {task_schedule[t].start_time..(task_schedule[t].end_time - 1) : t \in Placed}

\* C1: at every minute, for every team, the mechanics required by the placed
\* tasks of the team whose interval [start, end) holds the minute sum to at
\* most the capacity of the team
C1_CapacityRespected ==
    \A t \in Placed : \A minute \in BusyMinutes :
        UsageAt(task_schedule, task_schedule[t].team, minute)
            <= CapacityOf(task_schedule[t].team)

\* a pass has ended in which a task without predecessors was held back
\* because its team was fully used at the start date
C1_Witness ==
    /\ pc = "done"
    /\ \E t \in Placed, u \in Placed :
          /\ task_schedule[t].team = task_schedule[u].team
          /\ task_schedule[t].start_time = start_date
          /\ UsageAt(task_schedule, task_schedule[t].team, start_date)
                = CapacityOf(task_schedule[t].team)
          /\ dependencies(dynamic_constraints_cache.edges, u) = {}
          /\ u \notin late_part_tasks
          /\ task_schedule[u].start_time > start_date

\* C2: after a pass, for every effective edge a -> b with relation
\* "Finish <= Start" whose endpoints are both placed, end(a) <= start(b)
C2_FinishBeforeStart ==
    pc = "done" =>
        \A e \in EffectiveEdges :
            (e.Relationship = "Finish <= Start" /\ BothPlaced(e))
                => task_schedule[e.First].end_time <= task_schedule[e.Second].start_time

\* C3: after a pass, for every effective edge a -> b with relation
\* "Finish = Start" whose endpoints are both placed, start(b) = end(a)
C3_FinishEqualsStart ==
    pc = "done" =>
        \A e \in EffectiveEdges :
            (e.Relationship = "Finish = Start" /\ BothPlaced(e))
                => task_schedule[e.Second].start_time = task_schedule[e.First].end_time

\* C4: after a pass, for every effective edge a -> b with relation
\* "Start <= Start" whose endpoints are both placed, start(a) <= start(b)
C4_StartBeforeStart ==
    pc = "done" =>
        \A e \in EffectiveEdges :
            (e.Relationship = "Start <= Start" /\ BothPlaced(e))
                => task_schedule[e.First].start_time <= task_schedule[e.Second].start_time

\* the shift window of a shift that opens on a day, as [from, to)
WindowFrom(shift, day) ==
    CASE shift = "1st" -> AtTime(day, Shift1Start)
      [] shift = "2nd" -> AtTime(day, Shift2Start)
      [] shift = "3rd" -> AtTime(day, Shift3Start)
WindowTo(shift, day) ==
    CASE shift = "1st" -> AtTime(day, Shift2Start)
      [] shift = "2nd" -> AtTime(day, Shift3Start)
      [] shift = "3rd" -> AtTime(day + 1, Shift1Start)

TeamWorks(team, shift) ==
    \/ team \in DOMAIN team_shifts /\ shift \in team_shifts[team]
    \/ team \in QualityTeamsOn(shift)

\* C5: the interval of every placed task lies inside one shift window that
\* the recorded team works, and the recorded shift is that window
C5_WithinOneShift ==
    \A t \in Placed :
        \E shift \in Shifts :
            \E day \in (DayOf(task_schedule[t].start_time) - 1)..DayOf(task_schedule[t].start_time) :
                /\ WindowFrom(shift, day) <= task_schedule[t].start_time
                /\ task_schedule[t].end_time <= WindowTo(shift, day)
                /\ TeamWorks(task_schedule[t].team, shift)
                /\ task_schedule[t].shift = shift

\* C6: no minute of the interval of a placed task falls on a Saturday, a
\* Sunday or a holiday of the product line of the task
C6_OnWorkingDays ==
    \A t \in Placed :
        \A minute \in task_schedule[t].start_time..(task_schedule[t].end_time - 1) :
            is_working_day(minute, task_schedule[t].product_line)

\* C7: every placed late part task with an on-dock date starts no earlier
\* than the on-dock date plus the late part delay
C7_LatePartDelay ==
    \A t \in Placed :
        (t \in late_part_tasks /\ t \in DOMAIN on_dock_dates)
            => task_schedule[t].start_time >= on_dock_dates[t] + late_part_delay_days * 144

\* what two invocations are compared on: the placed tasks, their start, end,
\* team and shift, and their rank
Outcome(list) ==
    [t \in DOMAIN list |->
        <<list[t].scheduled_start, list[t].scheduled_end, list[t].team, list[t].shift,
          list[t].global_priority>>]

\* C8: two invocations on the same bundle and capacities give the same
\* placed tasks with the same start, end, team, shift and rank, whenever
\* each of them runs
C8_Deterministic ==
    (pc = "done" /\ first_list.have)
        => Outcome(global_priority_list) = Outcome(first_list.list)

\* C9: when the effective graph has a cycle or an edge naming an undefined
\* task, the pass aborts with an error and places no task, in every mode
C9_StructuralErrorsAbort ==
    (dynamic_constraints_cache.built /\ ~validate_dag(dynamic_constraints_cache.edges))
        => (pc = "error" /\ task_schedule = EmptyMap)

\* C10: when a scenario has left through an error, team_capacity and
\* quality_team_capacity equal their values at entry to the scenario
C10_RestoredOnError ==
    scen.pc = "raised"
        => (team_capacity = scen.entry_team /\ quality_team_capacity = scen.entry_quality)

\* C11: after scenario runs that all returned normally (scenario 1, 2 or 3,
\* the early return of scenario 3 included), every mechanic and quality team
\* has the capacity it had on entry to the first scenario
C11_CapacitiesRestored ==
    (scen.pc = "returned" /\ scen.all_returned)
        => (team_capacity = scen.first_team /\ quality_team_capacity = scen.first_quality)

\* scenario 3 returns early, after another scenario returned, having
\* scheduled with capacities other than the entry ones
C11_Witness ==
    /\ scen.pc = "returned" /\ scen.all_returned /\ scen.entered >= 2
    /\ scen.name = "scenario_3" /\ scen.result.none
    /\ scen.current_mech_config # scen.first_team
    /\ team_capacity = scen.first_team

\* the head counts phase 1 of scenario 2 evaluated with every task placed,
\* and the least makespan among them
Evaluated == {o \in scen.observed : o.makespan < MakespanSentinel}
BestObserved ==
    CHOOSE m \in {o.makespan : o \in Evaluated} : \A o \in Evaluated : m <= o.makespan

\* C12: the optimal_mechanics scenario 2 returns is the smallest head count,
\* among those its binary search evaluated, whose makespan equals the best
\* makespan observed in the search
C12_SmallestBestCount ==
    (scen.name = "scenario_2" /\ scen.pc = "returned" /\ Evaluated # {})
        => /\ \E o \in Evaluated :
                 o.mechanics = scen.result.optimal_mechanics /\ o.makespan = BestObserved
           /\ \A o \in Evaluated :
                 o.makespan = BestObserved => scen.result.optimal_mechanics <= o.mechanics

\* no task of the catalog is a quality inspection, so that no quality
\* capacity constrains the schedule
NoQualityWork == \A t \in all_tasks : ~tasks[t].is_quality

\* C13: with a quality capacity that never constrains, the makespan does not
\* grow with the uniform mechanic capacity: of two head counts at which every
\* task is placed, the larger has a makespan no greater than the smaller
C13_MakespanNonIncreasing ==
    NoQualityWork
        => \A a, b \in Evaluated :
              (a.at = b.at /\ a.mechanics < b.mechanics) => b.makespan <= a.makespan

\* C14: the configuration scenario 3 returns has a total workforce no
\* greater than that of the best configuration of phase 1, and the final
\* schedule has a max_lateness no greater than the best of phase 1 and a
\* total_lateness no greater than 1.1 times the best of phase 1
C14_NoWorseThanPhase1 ==
    (scen.name = "scenario_3" /\ scen.pc = "returned" /\ ~scen.result.none)
        => /\ scen.result.total_workforce <= scen.phase1.total_workforce
           /\ scen.result.max_lateness <= scen.phase1.max_lateness
           /\ 10 * scen.result.total_lateness <= 11 * scen.phase1.total_lateness

\* C15: when phase 1 of scenario 3 ends without an iteration that placed
\* every task, the scenario still returns a result, the best partial
\* solution, and not None
C15_PartialSolutionReturned ==
    (scen.name = "scenario_3" /\ scen.pc = "returned" /\ scen.best_config.none)
        => ~scen.result.none

\* the tasks with an entry in the heap
Queued == {e[2] : e \in ready_tasks}

\* C16: within a pass, a task whose placement fails is pushed again with its
\* heap priority raised by 0.1 (1 in tenths) while it has failed fewer than 3
\* times, and is marked permanently failed at its third failure; no task has
\* more than 3 attempts, and a permanently failed task is neither placed nor
\* queued again
C16_RetryDiscipline ==
    /\ last_op.op = "requeue"
          => /\ task_retry_counts[last_op.task] < max_task_retries
             /\ <<last_op.priority + 1, last_op.task>> \in ready_tasks
             /\ last_op.task \notin failed_tasks
    /\ last_op.op = "fail"
          => /\ task_retry_counts[last_op.task] = max_task_retries
             /\ last_op.task \in failed_tasks
    /\ \A t \in DOMAIN task_retry_counts :
          /\ task_retry_counts[t] <= max_task_retries
          /\ t \in DOMAIN task_schedule => task_retry_counts[t] < max_task_retries
    /\ \A t \in failed_tasks : t \notin DOMAIN task_schedule /\ t \notin Queued

\* a task has just failed for the third time, after other tasks were placed
C16_Witness ==
    /\ last_op.op = "fail"
    /\ task_retry_counts[last_op.task] = max_task_retries
    /\ DOMAIN task_schedule # {}

\* C17: when a pass has ended, every task of the catalog whose predecessors
\* are all placed or permanently failed is itself placed or permanently
\* failed, whether or not it belongs to a product
C17_ReadyTasksSettled ==
    pc = "done"
        => \A t \in all_tasks :
              (\A d \in dependencies(dynamic_constraints_cache.edges, t) :
                   IsDone(task_schedule, failed_tasks, d))
                  => IsDone(task_schedule, failed_tasks, t)

\* C18: calculate_makespan is a sentinel of at least 1,000,000 whenever some
\* task of the catalog is not placed, also when no task at all is placed
C18_SentinelWhenIncomplete ==
    (pc = "done" /\ Cardinality(DOMAIN task_schedule) < total_tasks)
        => calculate_makespan >= 1000000

\* the end times of the placed tasks of a product
ProductEnds(product) ==
    {task_schedule[t].end_time :
        t \in {u \in DOMAIN task_schedule : task_schedule[u].product_line = product}}

\* C19: a product is reported on time exactly when the latest end of its
\* scheduled tasks is not after its delivery date; a product without a
\* scheduled task has lateness 999999 and is not on time
C19_OnTimeIffNotAfterDelivery ==
    pc = "done"
        => \A product \in DOMAIN delivery_dates :
              LET m == calculate_lateness_metrics(global_priority_list)[product]
                  ends == ProductEnds(product)
              IN IF ends = {}
                 THEN m.lateness_days = 999999 /\ ~m.on_time
                 ELSE m.on_time <=> (\A e \in ends : e <= delivery_dates[product])

\* the positions of the edges first -> second in the dependency graph
EdgesBetween(dc, first, second) ==
    {k \in 1..Len(dc) : dc[k].First = first /\ dc[k].Second = second}

\* C20: for every base precedence edge (a -> b, rel) where a has a quality
\* inspection q, the graph holds exactly one edge a -> q, which is
\* "Finish = Start", an edge (q -> b, rel) and no edge a -> b; where a has no
\* inspection it holds (a -> b, rel). So with 1 -> 2 "Finish <= Start" and
\* the inspection 4 of task 1, task 2 starts no earlier than the end of 4
C20_RedirectedThroughInspection ==
    dynamic_constraints_cache.built
        => LET dc == dynamic_constraints_cache.edges IN
           /\ \A i \in 1..Len(precedence_constraints) :
                 LET c == precedence_constraints[i] IN
                 c.Relationship # ""
                     => IF c.First \in DOMAIN quality_requirements
                        THEN LET q == quality_requirements[c.First] IN
                             /\ Cardinality(EdgesBetween(dc, c.First, q)) = 1
                             /\ \A k \in EdgesBetween(dc, c.First, q) :
                                   dc[k].Relationship = "Finish = Start"
                             /\ \E k \in EdgesBetween(dc, q, c.Second) :
                                   dc[k].Relationship = c.Relationship
                             /\ EdgesBetween(dc, c.First, c.Second) = {}
                        ELSE \E k \in EdgesBetween(dc, c.First, c.Second) :
                                   dc[k].Relationship = c.Relationship
           /\ (bundle \in QualityBundles \cup SharedInspectionBundles /\ pc = "done"
               /\ {2, 4} \subseteq DOMAIN task_schedule)
                 => task_schedule[2].start_time >= task_schedule[4].end_time

\* the pass on the bundle with 1 -> 2 and the inspection 4 of task 1 is
\* over, the edges 1 -> 4 and 4 -> 2 are in the graph, and task 2 was
\* placed after the inspection
C20_Witness ==
    /\ bundle \in QualityBundles /\ pc = "done"
    /\ {1, 2, 4} \subseteq DOMAIN task_schedule
    /\ EdgesBetween(dynamic_constraints_cache.edges, 1, 4) # {}
    /\ EdgesBetween(dynamic_constraints_cache.edges, 4, 2) # {}
    /\ task_schedule[2].start_time >= task_schedule[4].end_time
    /\ task_schedule[4].end_time > task_schedule[1].end_time

\* C21: build_dynamic_dependencies is idempotent: whatever the number of
\* calls, the scenario runs and the capacity changes in between, a call
\* returns the edges a first call builds from the source data, none added,
\* removed or duplicated
C21_BuilderIdempotent ==
    /\ build_dynamic_dependencies = BuildConstraints
    /\ dynamic_constraints_cache.built => dynamic_constraints_cache.edges = BuildConstraints

\* the builder was called for two runs of scenario 2 with different head
\* counts, on a graph with edges
C21_Witness ==
    /\ scen.name = "scenario_2" /\ Cardinality(scen.observed) >= 2
    /\ dynamic_constraints_cache.built
    /\ Len(dynamic_constraints_cache.edges) >= 3
    /\ team_capacity # _original_team_capacity

RECURSIVE PathsFrom(_, _, _)
\* the directed paths of defined tasks that start at t and avoid the tasks seen
PathsFrom(dc, t, seen) ==
    {<<t>>} \cup UNION {{<<t>> \o p : p \in PathsFrom(dc, n, seen \cup {t})} :
                          n \in (Successors(dc, t) \cap all_tasks) \ (seen \cup {t})}

PathDuration(p) == SumOver(1..Len(p), [i \in 1..Len(p) |-> tasks[p[i]].duration])

LongestPath(dc, t) ==
    CHOOSE m \in {PathDuration(p) : p \in PathsFrom(dc, t, {})} :
        \A p \in PathsFrom(dc, t, {}) : PathDuration(p) <= m

\* C22: on an acyclic graph calculate_critical_path_length(t) is the greatest
\* sum of durations over the directed paths that start at t, the duration of
\* t included, whatever the cache holds from an earlier call; a second call
\* for t returns the value of the first
C22_CriticalPathIsLongestPath ==
    LET dc == dynamic_constraints_cache.edges IN
    (pc = "done" /\ ~HasCycle(dc))
        => \A t, u \in all_tasks :
              LET first == get_path_length_cached(dc, t, get_path_length_cached(dc, u, EmptyMap))
                  second == get_path_length_cached(dc, t, first)
              IN /\ first[t] = LongestPath(dc, t)
                 /\ second[t] = first[t]
                 /\ calculate_critical_path_length(dc, t) = first[t]

\* a pass is over on an acyclic graph in which a task has two paths of
\* different lengths behind it
C22_Witness ==
    LET dc == dynamic_constraints_cache.edges IN
    /\ pc = "done" /\ ~HasCycle(dc)
    /\ \E t \in all_tasks :
          /\ \E p, q \in PathsFrom(dc, t, {}) :
                Len(p) >= 2 /\ Len(q) >= 2 /\ PathDuration(p) < PathDuration(q)
          /\ calculate_critical_path_length(dc, t) > tasks[t].duration

\* the kinds of task calculate_task_priority gives a fixed score
SpecialTask(t) ==
    t \in late_part_tasks \/ t \in DOMAIN quality_inspections \/ t \in rework_tasks

\* C23: whenever the heap holds a late part task, a quality inspection or a
\* rework task together with a production task, neither of them re-queued,
\* the special task has the smaller key and is popped before the production
\* task
C23_SpecialTasksFirst ==
    \A e, f \in ready_tasks :
        (/\ SpecialTask(e[2]) /\ ~SpecialTask(f[2])
         /\ RetryCount(e[2]) = 0 /\ RetryCount(f[2]) = 0)
            => (e[1] < f[1] \/ (e[1] = f[1] /\ e[2] < f[2]))

\* the operations of the loop body that follow a pop
PopOps == {"skip_failed", "skip_no_product", "KeyError", "requeue", "fail", "place"}

\* the heap a step of the loop pops from: ready_tasks after the rescan
HeapAtPop ==
    ready_tasks \cup (IF NeedsRescan
                      THEN Pushed(dynamic_constraints_cache.edges,
                                  RescanReady(dynamic_constraints_cache.edges))
                      ELSE {})

\* C24: every task popped from the heap has the least (priority, task id)
\* key of the heap at that moment; among tasks of equal priority the one
\* with the least id is popped first
C24_PopsLeastKey ==
    [][(pc = "loop" /\ iteration_count' = iteration_count + 1 /\ last_op'.op \in PopOps)
          => /\ <<last_op'.priority, last_op'.task>> \in HeapAtPop
             /\ \A o \in HeapAtPop :
                   \/ last_op'.priority < o[1]
                   \/ last_op'.priority = o[1] /\ last_op'.task <= o[2]]_vars

\* a task was popped and placed while a task of the same priority and a
\* greater id stayed in the heap
C24_Witness ==
    /\ last_op.op = "place"
    /\ \E o \in ready_tasks : o[1] = last_op.priority /\ o[2] > last_op.task
    /\ \E o \in ready_tasks : o[1] > last_op.priority

\* C25: a task of 60 minutes on a team that works the 1st shift only, whose
\* earliest permissible time is Friday 14:00 (the end of its predecessor),
\* for a product without weekend work, is placed on Monday 06:00-07:00
C25_FridayAfternoonToMonday ==
    (/\ pc = "done"
     /\ team_shifts = ("M1" :> {"1st"}) /\ holidays = EmptyMap
     /\ DOMAIN task_schedule = {1, 2, 3}
     /\ dependencies(dynamic_constraints_cache.edges, 2) = {1}
     /\ tasks[2].duration = 60
     /\ task_schedule[1].end_time = AtTime(4, 840))
        => /\ task_schedule[2].start_time = AtTime(7, 360)
           /\ task_schedule[2].end_time = AtTime(7, 420)

\* the place of a quality team's name in lexicographic order
LexRank(team) == CHOOSE i \in 1..2 : <<"Q1", "Q2">>[i] = team

\* the quality teams that work a shift with room for the workers needed
EligibleQualityTeams(shift, mechanics_needed) ==
    {team \in QualityTeamsOn(shift) :
        team \in DOMAIN quality_team_capacity
        /\ quality_team_capacity[team] >= mechanics_needed}

\* C26: assign_quality_team_balanced(shift, n) returns, among the quality
\* teams that work the shift with capacity >= n, the one with the least
\* scheduled worker-minutes, the first by name among those of equal load; it
\* returns no team exactly when there is no such team
C26_LeastLoadedThenByName ==
    \A shift \in {"1st", "2nd", "3rd"}, n \in 1..2 :
        LET eligible == EligibleQualityTeams(shift, n)
            best_team == assign_quality_team_balanced(shift, n)
        IN IF eligible = {} THEN best_team = "None"
           ELSE /\ best_team \in eligible
                /\ \A o \in eligible :
                      \/ TeamLoad(best_team) < TeamLoad(o)
                      \/ /\ TeamLoad(best_team) = TeamLoad(o)
                         /\ LexRank(best_team) <= LexRank(o)

\* every head count of a configuration lies between the two limits
WithinLimits(config, low, high) ==
    \A team \in DOMAIN config : low <= config[team] /\ config[team] <= high

\* C27: throughout scenario 3 and in the configuration it returns, every
\* mechanic team's capacity is within [min_mechanics, max_mechanics] and
\* every quality team's capacity within [min_quality, max_quality]
C27_ConfigurationsWithinLimits ==
    scen.name = "scenario_3"
        => /\ WithinLimits(scen.current_mech_config, scen.min_mechanics, scen.max_mechanics)
           /\ WithinLimits(scen.current_qual_config, scen.min_quality, scen.max_quality)
           /\ ~scen.best_config.none
                 => /\ WithinLimits(scen.best_config.mechanic,
                                     scen.min_mechanics, scen.max_mechanics)
                    /\ WithinLimits(scen.best_config.quality,
                                     scen.min_quality, scen.max_quality)
           /\ scen.pc \in {"s3_phase1_run", "s3_phase2_run", "s3_phase2_test", "s3_final_run"}
                 => /\ WithinLimits(team_capacity, scen.min_mechanics, scen.max_mechanics)
                    /\ WithinLimits(quality_team_capacity, scen.min_quality, scen.max_quality)
           /\ (scen.pc = "returned" /\ ~scen.result.none)
                 => /\ WithinLimits(scen.result.config.mechanic,
                                     scen.min_mechanics, scen.max_mechanics)
                    /\ WithinLimits(scen.result.config.quality,
                                     scen.min_quality, scen.max_quality)

----------------------------------------------------------------------------
(* calculate_team_utilization of the dashboard: a percentage per team *)

\* the dictionary the dashboard shows: empty without a schedule or a usable
\* makespan, else min(100, int(scheduled / available * 100)) for every team
calculate_team_utilization ==
    IF DOMAIN task_schedule = {} \/ calculate_makespan = 0
          \/ calculate_makespan >= MakespanSentinel
    THEN [team \in {} |-> 0]
    ELSE [team \in DOMAIN team_capacity \cup DOMAIN quality_team_capacity |->
            LET scheduled_minutes == TeamLoad(team)
                available_minutes == (IF team \in DOMAIN team_capacity
                                      THEN team_capacity[team]
                                      ELSE quality_team_capacity[team])
                                     * ShiftsPerDay(team) * minutes_per_shift
                                     * calculate_makespan
            IN IF available_minutes > 0
               THEN Min(100, (scheduled_minutes * 100) \div available_minutes)
               ELSE 0]

\* C28: after every pass the utilization of every team is within [0, 1]: the
\* percentage of the dashboard is within 0..100, and the ratio the scheduler
\* computes, scheduled worker-minutes over available worker-minutes, is
\* not above 1
C28_UtilizationWithinUnitInterval ==
    pc = "done"
        => /\ \A team \in DOMAIN calculate_team_utilization :
                 /\ 0 <= calculate_team_utilization[team]
                 /\ calculate_team_utilization[team] <= 100
           /\ \A team \in DOMAIN team_capacity \cup DOMAIN quality_team_capacity :
                 ~NothingAvailable(team)
                     => /\ 0 <= _calculate_team_utilization(team).scheduled_minutes
                        /\ _calculate_team_utilization(team).scheduled_minutes
                              <= _calculate_team_utilization(team).per_day * calculate_makespan

\* C29: in every pass, at the step that places a task each predecessor of
\* the task in the effective graph is already placed or permanently failed,
\* and none of them is in the heap (ready or re-queued)
C29_PlacedAfterPredecessors ==
    [][(pc = "loop" /\ last_op'.op = "place")
          => \A d \in dependencies(dynamic_constraints_cache.edges, last_op'.task) :
                /\ IsDone(task_schedule, failed_tasks, d)
                /\ d \notin {e[2] : e \in HeapAtPop}
                /\ d # last_op'.task]_vars

\* a task with two predecessors has just been placed, after both of them
C29_Witness ==
    /\ last_op.op = "place"
    /\ Cardinality(dependencies(dynamic_constraints_cache.edges, last_op.task)) >= 2
    /\ \A d \in dependencies(dynamic_constraints_cache.edges, last_op.task) :
          d \in DOMAIN task_schedule

\* C30: at every step of the loop of a pass the placements recorded before
\* the step are kept unchanged, a step that places a task places one that
\* had no placement, scheduled_count is the number of entries of
\* task_schedule before and after the step, a placed task has no entry left
\* in the heap, and no task is both placed and permanently failed
C30_PlacedOnceAndKept ==
    [][(pc = "loop" /\ iteration_count' = iteration_count + 1)
          => /\ \A t \in DOMAIN task_schedule :
                   t \in DOMAIN task_schedule' /\ task_schedule'[t] = task_schedule[t]
             /\ last_op'.op = "place"
                   => /\ last_op'.task \notin DOMAIN task_schedule
                      /\ DOMAIN task_schedule' = DOMAIN task_schedule \cup {last_op'.task}
             /\ last_op'.op # "place" => task_schedule' = task_schedule
             /\ scheduled_count = Cardinality(DOMAIN task_schedule)
             /\ scheduled_count' = Cardinality(DOMAIN task_schedule')
             /\ DOMAIN task_schedule' \cap {e[2] : e \in ready_tasks'} = {}
             /\ DOMAIN task_schedule \cap failed_tasks = {}
             /\ DOMAIN task_schedule' \cap failed_tasks' = {}]_vars

\* a third task has just been placed in a pass in which another task has
\* permanently failed
C30_Witness ==
    /\ last_op.op = "place"
    /\ scheduled_count >= 2
    /\ failed_tasks # {}

\* the window searches the next iteration of the loop may run: those for the
\* task at the top of the heap, on its own team or on any quality team
NextWindowSearches ==
    IF pc # "loop" \/ ready_tasks = {} THEN {}
    ELSE LET dc == dynamic_constraints_cache.edges
             task_id == HeapMin(ready_tasks)[2]
             product_line == ScheduleProductLine(task_id)
         IN IF task_id \notin all_tasks \/ product_line = "None" THEN {}
            ELSE {get_next_working_time_with_capacity(EarliestStart(dc, task_id), product_line,
                      team, tasks[task_id].mechanics_required, tasks[task_id].duration,
                      tasks[task_id].is_quality) :
                  team \in IF tasks[task_id].is_quality THEN DOMAIN quality_team_capacity
                           ELSE {tasks[task_id].team}}

\* C31: every pass terminates: its main loop never runs more than
\* 10 x (number of tasks) iterations, every window search ends, found or
\* given up, within 5000 steps, and a pass whose loop has started always
\* comes to its end, by a result or by an exception
C31_PassTerminates ==
    /\ [](pc = "loop" => /\ iteration_count <= 10 * total_tasks
                         /\ \A w \in NextWindowSearches :
                               /\ w.st \in {"found", "raise"}
                               /\ w.iterations <= max_window_iterations)
    /\ (pc = "loop") ~> (pc \in {"done", "error"})

\* a silent pass whose loop has used all its 10 x (number of tasks)
\* iterations on a task that belongs to no product
C31_Witness ==
    /\ pc = "loop"
    /\ silent_mode
    /\ iteration_count = 10 * total_tasks
    /\ last_op.op = "skip_no_product"

C33_ReworkThroughInspection ==
    dynamic_constraints_cache.built
        => LET dc == dynamic_constraints_cache.edges IN
           /\ \A i \in 1..Len(rework_constraints) :
                 LET c == rework_constraints[i] IN
                 IF c.First \in DOMAIN quality_requirements
                 THEN LET q == quality_requirements[c.First] IN
                      /\ Cardinality(EdgesBetween(dc, c.First, q)) = 1
                      /\ \A k \in EdgesBetween(dc, c.First, q) :
                            dc[k].Relationship = "Finish = Start"
                      /\ \E k \in EdgesBetween(dc, q, c.Second) :
                            dc[k].Relationship = c.Relationship
                      /\ EdgesBetween(dc, c.First, c.Second) = {}
                 ELSE \E k \in EdgesBetween(dc, c.First, c.Second) :
                         dc[k].Relationship = c.Relationship
           /\ \A i \in 1..Len(late_part_constraints) :
                 \E k \in EdgesBetween(dc, late_part_constraints[i].First,
                                        late_part_constraints[i].Second) :
                     dc[k].Relationship = "Finish <= Start" /\ dc[k].Type = "Late Part"

\* a pass has ended on a bundle with two rework constraints from the
\* inspected rework task 7 and a baseline constraint from it as well
C33_Witness ==
    /\ pc = "done"
    /\ dynamic_constraints_cache.built
    /\ Len(rework_constraints) = 2
    /\ \A i \in 1..2 : rework_constraints[i].First = 7
    /\ precedence_constraints # <<>>
    /\ {7, 10007, 2} \subseteq DOMAIN task_schedule

\* the constraints of a list that start at a task
StartingAt(constraints, task) ==
    {i \in 1..Len(constraints) : constraints[i].First = task}

\* C34: in the effective graph of a pass, every primary -> inspection link
\* of quality_requirements is an edge exactly once, and that edge is
\* 'Finish = Start'
C34_InspectionLinkOnce ==
    dynamic_constraints_cache.built
        => \A primary_task \in DOMAIN quality_requirements :
              LET dc == dynamic_constraints_cache.edges
                  links == EdgesBetween(dc, primary_task, quality_requirements[primary_task])
              IN /\ Cardinality(links) = 1
                 /\ \A k \in links : dc[k].Relationship = "Finish = Start"

\* a pass has ended on a bundle in which one inspected task starts baseline
\* constraints and another starts no constraint at all
C34_Witness ==
    /\ pc = "done"
    /\ dynamic_constraints_cache.built
    /\ \E a \in DOMAIN quality_requirements, b \in DOMAIN quality_requirements :
          /\ StartingAt(precedence_constraints, a) # {}
          /\ StartingAt(precedence_constraints, b) = {}
          /\ StartingAt(rework_constraints, b) = {}
          /\ {a, b, quality_requirements[a], quality_requirements[b]}
                \subseteq DOMAIN task_schedule

----------------------------------------------------------------------------
(* C35 *)

\* C35: a pass that validates the graph fails with the validation error
\* exactly when the effective graph has a directed cycle or an edge endpoint
\* that is no defined task; late part and rework tasks that no product
\* holds do not make it fail
C35_FailsOnCycleOrUndefinedTask ==
    LET dc == dynamic_constraints_cache.edges
        sound == /\ ~HasCycle(dc)
                 /\ all_tasks_in_constraints(dc) \subseteq all_tasks
    IN dynamic_constraints_cache.built
        => /\ validate_dag(dc) <=> sound
           /\ (pc # "idle" /\ ~silent_mode) => (last_op.op = "ValueError" <=> ~sound)
           /\ last_op.op = "ValueError" => (pc = "error" /\ ~silent_mode)

\* a validated pass has finished on a graph without cycle although a rework
\* task is in no product
C35_Witness ==
    /\ pc = "done"
    /\ ~silent_mode
    /\ orphan_tasks # {}
    /\ validate_dag(dynamic_constraints_cache.edges)
    /\ task_schedule # EmptyMap

----------------------------------------------------------------------------
(* C36 *)

\* the product line by the order: the explicit association; for an
\* inspection, the product of its primary; the first product holding the task
ResolvedProductLine(task_id) ==
    IF task_id \in DOMAIN task_to_product THEN task_to_product[task_id]
    ELSE IF task_id \in DOMAIN quality_inspections
    THEN PriorityProductLine(quality_inspections[task_id])
    ELSE FirstProductWith(1, {task_id})

\* C36: every placed task is placed under the product line that the explicit
\* association, then the primary of an inspection, then the first product
\* holding the task gives, which is the product whose delivery date enters
\* the task's priority
C36_PlacedUnderResolvedProduct ==
    \A t \in DOMAIN task_schedule :
        /\ task_schedule[t].product_line = ResolvedProductLine(t)
        /\ (t \notin late_part_tasks \cup rework_tasks \cup DOMAIN quality_inspections)
              => task_schedule[t].product_line = PriorityProductLine(t)

----------------------------------------------------------------------------
(* C37 *)

\* the phase 1 iterations so far that placed every task and were measured
Phase1Complete == {o \in scen.phase1_seen : o.placed_all /\ ~o.raised}

\* (max_lateness, total_lateness) of a is not above that of b
LexAtMost(a, b) ==
    \/ a.max_lateness < b.max_lateness
    \/ a.max_lateness = b.max_lateness /\ a.total_lateness <= b.total_lateness

\* C37: during phase 1 of scenario 3 the best configuration is that of the
\* earliest iteration whose (max_lateness, total_lateness) is the
\* lexicographically least among the iterations so far that placed every
\* task; while no iteration has placed every task there is no best
C37_BestIsLexicographicallyLeast ==
    (scen.name = "scenario_3" /\ scen.pc \in {"s3_phase1", "s3_phase1_run"})
        => IF Phase1Complete = {} THEN scen.best_config.none
           ELSE \E o \in Phase1Complete :
                   /\ \A p \in Phase1Complete :
                         /\ LexAtMost(o, p)
                         /\ LexAtMost(p, o) => o.iteration <= p.iteration
                   /\ scen.best_config = [none |-> FALSE, mechanic |-> o.mechanic,
                                          quality |-> o.quality]
                   /\ scen.best_max_lateness = o.max_lateness
                   /\ scen.best_total_lateness = o.total_lateness

\* a later iteration with another configuration was better than the first
\* ones, and its configuration is the best
C37_Witness ==
    /\ scen.name = "scenario_3" /\ scen.pc = "s3_phase1"
    /\ \E o \in Phase1Complete, p \in Phase1Complete :
          /\ o.iteration < p.iteration
          /\ ~LexAtMost(o, p)
          /\ p.mechanic # o.mechanic
          /\ scen.best_config.mechanic = p.mechanic
          /\ scen.best_max_lateness = p.max_lateness

----------------------------------------------------------------------------
(* C38 *)

\* what the last iteration of phase 1 saw
LastObserved == CHOOSE o \in scen.phase1_seen : o.iteration = scen.iteration

\* the iterations that placed every task since the best one
SinceBest ==
    {o \in Phase1Complete :
        \E b \in Phase1Complete :
            /\ \A p \in Phase1Complete :
                  LexAtMost(b, p) /\ (LexAtMost(p, b) => b.iteration <= p.iteration)
            /\ b.iteration < o.iteration}

\* every team was at its limit in the last iteration
NoTeamCanGrow ==
    /\ \A team \in DOMAIN LastObserved.mechanic :
          LastObserved.mechanic[team] >= scen.max_mechanics
    /\ \A team \in DOMAIN LastObserved.quality :
          LastObserved.quality[team] >= scen.max_quality

\* the last iteration looked for a team to grow: it left tasks unplaced, it
\* raised, or it placed every task without improvement
LookedForGrowth ==
    \/ LastObserved.raised
    \/ ~LastObserved.placed_all
    \/ ~LastObserved.improved

\* C38: phase 1 of scenario 3 runs at most max_iterations iterations, and
\* after an iteration that placed every task with max_lateness 0, after 20
\* iterations in a row that placed every task without a new best, and
\* after an iteration that looked for a team to grow when every team was at
\* its limit, no further iteration is run
C38_Phase1Stops ==
    (scen.name = "scenario_3" /\ scen.pc \in {"s3_phase1", "s3_phase1_run"})
        => /\ scen.iteration <= scen.max_iterations
           /\ (scen.pc = "s3_phase1" /\ scen.iteration >= 1)
                => /\ (LastObserved \in Phase1Complete /\ LastObserved.max_lateness = 0)
                        => scen.phase1_complete
                   /\ Cardinality(SinceBest) >= max_iterations_without_improvement
                        => scen.phase1_complete
                   /\ (NoTeamCanGrow /\ LookedForGrowth) => scen.phase1_complete

----------------------------------------------------------------------------
(* C39 *)

\* C39: during phase 1 of scenario 3, once an iteration has placed every
\* task with no product ending after its delivery date, the configuration
\* is the one of that iteration: no team grows from then on
C39_NoGrowthOnceOnTime ==
    (scen.name = "scenario_3" /\ scen.pc \in {"s3_phase1", "s3_phase1_run"})
        => \A o \in Phase1Complete :
              o.on_time => /\ scen.current_mech_config = o.mechanic
                           /\ scen.current_qual_config = o.quality

----------------------------------------------------------------------------
(* C40 *)

\* scenario 3 is in its phase 2
InPhase2 ==
    /\ scen.name = "scenario_3"
    /\ scen.pc \in {"s3_phase2", "s3_phase2_run", "s3_phase2_pick", "s3_phase2_test"}

\* the head count of a team in a configuration
HeadCount(config, team) ==
    IF team \in DOMAIN config.mechanic THEN config.mechanic[team] ELSE config.quality[team]

\* the teams whose head count differs between two configurations
ChangedTeams(a, b) ==
    {team \in DOMAIN a.mechanic \cup DOMAIN a.quality : HeadCount(a, team) # HeadCount(b, team)}

\* a step of phase 2 that analyses the schedule of the best configuration:
\* every reduction it will try is of a team below 70% of utilization and
\* above its minimum, a quality team also above its peak
Phase2Analysis ==
    (scen.pc = "s3_phase2_run" /\ scen'.pc = "s3_phase2_pick")
        => \A i \in 1..Len(scen'.candidates) :
              LET team == scen'.candidates[i].team IN
              /\ Underutilized(team)
              /\ IF team \in DOMAIN team_capacity
                 THEN /\ scen'.candidates[i].kind = "mechanic"
                      /\ scen.best_config.mechanic[team] > scen.min_mechanics
                 ELSE /\ scen'.candidates[i].kind = "quality"
                      /\ scen.best_config.quality[team] > scen.min_quality
                      /\ scen.best_config.quality[team] > PeakConcurrent(team)

\* a step of phase 2 that changes the best configuration: one team, tried
\* in this iteration, loses one worker, after a run that placed every task
\* within the targets; the iteration tries nothing more
Phase2Acceptance ==
    (InPhase2 /\ scen'.best_config # scen.best_config)
        => /\ scen.pc = "s3_phase2_test"
           /\ \E team \in ChangedTeams(scen.best_config, scen'.best_config) :
                 /\ ChangedTeams(scen.best_config, scen'.best_config) = {team}
                 /\ HeadCount(scen'.best_config, team) = HeadCount(scen.best_config, team) - 1
                 /\ Head(scen.candidates).team = team
           /\ Cardinality(DOMAIN task_schedule') >= total_tasks
           /\ LET metrics == calculate_lateness_metrics(global_priority_list') IN
              /\ MaxLateness(metrics) <= scen.phase1.max_lateness
              /\ 10 * TotalLateness(metrics) <= 11 * scen.phase1.total_lateness
           /\ scen'.pc = "s3_phase2"
           /\ scen'.improved
           /\ scen'.optimization_iterations = scen.optimization_iterations

\* the head of the loop of phase 2: it goes on only after an accepted
\* reduction and below 50 iterations
Phase2LoopHead ==
    (scen.name = "scenario_3" /\ scen.pc = "s3_phase2" /\ scen' # scen)
        => IF scen.improved /\ scen.optimization_iterations < 50
           THEN scen'.pc = "s3_phase2_run"
                /\ scen'.optimization_iterations = scen.optimization_iterations + 1
           ELSE scen'.pc = "s3_final_run"

\* C40: phase 2 of scenario 3 runs at most 50 iterations; an iteration
\* accepts at most one reduction, of one team by one worker, a team below
\* 70% of utilization and above its minimum (a quality team also above its
\* peak), after a run that placed every task within the lateness targets;
\* the first iteration that accepts none is the last
C40_OneReductionPerIteration ==
    /\ [](InPhase2 =>
             /\ scen.optimization_iterations <= 50
             /\ scen.phase1.total_workforce - scen.best_total_workforce
                   <= scen.optimization_iterations
             /\ (scen.pc = "s3_phase2_pick" /\ scen.candidates = <<>>) => ~scen.improved)
    /\ [][Phase2Analysis /\ Phase2Acceptance /\ Phase2LoopHead]_vars

\* phase 2 has accepted a reduction in its first iteration and none in its
\* second
C40_Witness ==
    /\ scen.name = "scenario_3"
    /\ scen.pc = "s3_phase2"
    /\ scen.optimization_iterations = 2
    /\ ~scen.improved
    /\ scen.best_total_workforce = scen.phase1.total_workforce - 1

====
